---- MODULE Spec2Model ----
(***************************************************************************)
(* A model of webtop-il-kit: the pagination search of pagination.py        *)
(* (WebtopPagination.navigate_to_date_page and its helpers), the login     *)
(* flow of auth.py (WebtopAuth.login and its helpers, with the tab         *)
(* selection and the button clicks on their own), the date parser of       *)
(* utils.py (parse_date), the table extraction of extractor.py             *)
(* (WebtopExtractor.extract_homework and its helpers) and the orchestrator *)
(* of scraper.py (WebtopScraper.get_today_homework).                       *)
(*                                                                         *)
(* The helpers that compute a value from what they read (the heading scans, *)
(* the navigation control, the cell text, the attachments, the table       *)
(* location and the table rows) are also run on their own, over the inputs *)
(* the page can give them.                                                 *)
(*                                                                         *)
(* The browser page is the environment.  Every awaited driver call may     *)
(* succeed or raise, a click may lead to any page, and the page content    *)
(* is whatever the portal serves: the model draws all of these with \E.    *)
(***************************************************************************)
EXTENDS Integers, Sequences, FiniteSets, TLC

(***************************************************************************)
(* Bounds of the model.                                                    *)
(***************************************************************************)
\* Config.MAX_PAGINATION_PAGES (config.py:28) is 100; the search is
\* parametric in it and the model runs it with a small value.
MaxPages == 3
\* Calendar days are 1..MaxDay; a heading shows one day.
MaxDay == 3
\* Page identities (page.url values) are 1..NumUrls.
NumUrls == 2

Days == 1..MaxDay
Urls == 1..NumUrls
Directions == {"forward", "backward"}

VARIABLES
    \* ---- the page, as the pagination search sees it
    url,            \* page.url: the identity of the page shown
    pageDates,      \* the days named by the date headings of the page shown
    \* ---- navigate_to_date_page: its arguments, locals and position
    target,         \* target_date
    ppc,            \* position in navigate_to_date_page
    direction,      \* direction
    visited_pages,  \* visited_pages
    pages_checked,  \* pages_checked
    pret,           \* the value returned ("none" until it returns)
    \* ---- history of the call (what an observer of the page driver records)
    logAttempts,    \* whether the observer keeps the log of click attempts
    attempted,      \* the <<url, direction>> pairs a click attempt was started from
    reattempted,    \* TRUE once a click attempt started from a pair already attempted
    clicks,         \* click() calls made in the call
    iterClicks,     \* click() calls made in the current loop iteration
    iterFinds,      \* controls located in the current loop iteration
    initRead,       \* TRUE once the initial page's dates were read (line 157) ...
    initDates,      \* ... current_dates as read on the initial page ...
    dates0,         \* ... and the days that page shows, all three kept until the
                    \* loop of line 173 is entered
    initDirection,  \* the direction chosen at lines 158-170 ("none" if none)
    firstFindDir,   \* direction of the first _find_navigation_button call
    firstClickDir,  \* direction of the first control clicked
    tried,          \* the directions the search has taken in this call
    lastFind,       \* what the latest find_date_on_page call returned
    clickedSince,   \* a click() call was made after that find_date_on_page call
    clickResult,    \* how the _click_navigation_button call of this iteration
                    \* ended: raised, target found, or the new dates it read
    faulted,        \* TRUE once a driver call failed (see Fault)
    \* ---- the portal behind the page
    world,          \* the kind of portal (see AnyWorld and WeekWorlds)
    week            \* the week shown, in a world of weeks

pagVars == <<url, pageDates, target, ppc, direction, visited_pages, pages_checked,
             pret, logAttempts, attempted, reattempted, clicks, iterClicks, iterFinds,
             initRead, initDates, dates0, initDirection, firstFindDir, firstClickDir,
             tried, lastFind, clickedSince, clickResult, faulted, world, week>>

VARIABLES
    \* ---- the page, as the login flow sees it
    ci,             \* the CI environment variable says "true"
    lurl,           \* current_url: [host, webtop, moe, login] (see PageUrls)
    now,            \* seconds on the event loop's clock since verification began
    \* ---- WebtopAuth.login and _verify_login_success: position and locals
    lpc,            \* position in login
    lret,           \* what login did: "none", "True", "False" or "raised"
    recaptcha_checked,  \* recaptcha_checked
    captchaI,       \* iterations done of the loop of _handle_recaptcha
    vret,           \* what _verify_login_success returned ("none" before)
    \* ---- history of the call
    ltrace,         \* the steps of the flow that were carried out, in order
    raisedStep,     \* the step whose exception reached login's handler
    debugCalls,     \* _debug_login_failure calls (capped at 2)
    reloads,        \* page.reload calls
    titlesRead,     \* the page titles login read (lines 47 and 54), in order
    successObserved,    \* a URL read by verification met the redirect condition
    timedOut,       \* the poll ended by its timeout
    captchaChecks,  \* _handle_recaptcha calls (capped at 2)
    captchaUnresolved,  \* a visible CAPTCHA was waited for and no redirect came
    polledAfterCaptcha, \* the poll went on after an unresolved CAPTCHA
    captureFailed,  \* a step of a diagnostic capture (title, body text or
                    \* screenshot) failed inside _debug_login_failure
    captchaSeen,    \* what _handle_recaptcha found: "absent", "hidden",
                    \* "visible" or "error" ("unchecked" before)
    finalBy         \* what made the final verification succeed

loginVars == <<ci, lurl, now, lpc, lret, recaptcha_checked, captchaI, vret, ltrace,
               raisedStep, debugCalls, reloads, titlesRead, successObserved,
               timedOut, captchaChecks, captchaUnresolved, polledAfterCaptcha,
               captchaSeen, captureFailed, finalBy>>

VARIABLES
    \* ---- a pure function and the input it is applied to
    arg,            \* the input
    result,         \* what the function gave for it ([kind |-> "pending"] before)
    \* ---- the homework page, as WebtopExtractor.extract_homework sees it
    sections,       \* the date sections of the page, in page order
    etarget,        \* target_date (a day)
    \* ---- extract_homework and _extract_table_data: position and locals
    epc,            \* position in extract_homework
    heading,        \* target_heading: the section of the heading found, 0 for None
    table,          \* table: the section of the table found, 0 for None
    nrows,          \* len(rows)
    row_idx,        \* rows of the table processed so far
    inner_list,     \* homework_list of _extract_table_data
    homework_list,  \* homework_list of extract_homework
    eret,           \* what extract_homework returned ([kind |-> "none"] before)
    \* ---- history of the call
    eraised,        \* where the exception came from that reached the handler
    qualified,      \* rows read so far that have six cells and a subject
    located,        \* how lines 52-59 ended: the date was found on the page,
                    \* reached by pagination, or not reached ("none" before)
    \* ---- WebtopScraper.get_today_homework: inputs, position and locals
    username,       \* self.username
    password,       \* self.password
    date,           \* the date argument
    spc,            \* position in get_today_homework
    browser,        \* browser is not None
    context,        \* context is not None
    target_date,    \* target_date: a date, or [kind |-> "now"] for datetime.now()
    shomework,      \* homework: the list extract_homework returned
    sret,           \* how get_today_homework ended ([kind |-> "none"] before)
    \* ---- history of the call
    calls           \* the calls made to browser, components and close, in order

VARIABLES
    \* ---- the Ministry of Education login page, as the tab selection sees it
    mpage,          \* the username field, the tabs and the password field
    \* ---- _select_username_password_tab: position and locals
    tpc,            \* position in _select_username_password_tab
    method,         \* the method of _click_correct_tab that runs next
    tret,           \* what _click_correct_tab returned, "None" when it was
                    \* not called ("none" before)
    \* ---- history of the call
    reads,          \* the methods of _is_tab_already_selected that ran without
                    \* a driver error
    already,        \* the method of _is_tab_already_selected that returned
                    \* True, 0 for False
    tabCalls,       \* the click() calls made on tabs, in order
    \* ---- _click_moe_button and _click_login_button: position and locals
    control,        \* the control the method clicks: "moe" or "login"
    bpc,            \* position in the method
    element,        \* the element located ([kind |-> "none"] before)
    polls,          \* iterations of the wait loop that saw the control disabled
    bret,           \* how the method ended ("none" before)
    \* ---- history of the call
    foundBy,        \* the method of _find_login_button that returned the button
    lastRead,       \* the attributes the latest iteration of the wait loop read
    bcalls          \* the click() calls made on the control

fnVars == <<arg, result>>

tabVars == <<mpage, tpc, method, tret, reads, already, tabCalls>>

buttonVars == <<control, bpc, element, polls, bret, foundBy, lastRead, bcalls>>

authVars == <<tabVars, buttonVars>>

extVars == <<sections, etarget, epc, heading, table, nrows, row_idx, inner_list,
             homework_list, eret, eraised, qualified, located>>

scrVars == <<username, password, date, spc, browser, context, target_date,
             shomework, sret, calls>>

restVars == <<fnVars, extVars, scrVars, authVars>>

vars == <<pagVars, loginVars, restVars>>

(***************************************************************************)
(* Helpers.                                                                *)
(***************************************************************************)
SetMin(S) == CHOOSE x \in S : \A y \in S : x <= y

\* sorted(dates): the ascending sequence of the days read.
RECURSIVE SortedSeq(_)
SortedSeq(S) == IF S = {} THEN <<>> ELSE <<SetMin(S)>> \o SortedSeq(S \ {SetMin(S)})

Opposite(d) == IF d = "forward" THEN "backward" ELSE "forward"

(***************************************************************************)
(* find_date_on_page(page, target_date_str): True only when a heading read *)
(* contains the target's display string; any driver error gives False.     *)
(***************************************************************************)
FindDateOutcomes(dates, t) == IF t \in dates THEN {TRUE, FALSE} ELSE {FALSE}

(***************************************************************************)
(* get_dates_on_page(page): sorted(dates) of the headings read before any  *)
(* driver error; all of them when nothing fails.  The headings' document   *)
(* order is the page's, so the dates read can be any subset.               *)
(***************************************************************************)
GetDatesOutcomes(dates) == {SortedSeq(S) : S \in SUBSET dates}

(***************************************************************************)
(* Lines 158-170: the first direction, or "none" for the inconsistent      *)
(* case in which navigate_to_date_page returns False.                      *)
(***************************************************************************)
ChooseDirectionInRangeForward(t, current_dates) ==
    IF current_dates # <<>>
    THEN IF t < current_dates[1] THEN "backward" ELSE "forward"
    ELSE "forward"

ChooseDirectionSwapped(t, current_dates) ==
    IF current_dates # <<>>
    THEN IF t < current_dates[1] THEN "forward"
         ELSE IF t > current_dates[Len(current_dates)] THEN "backward"
         ELSE "none"
    ELSE "forward"

ChooseDirection(t, current_dates) ==
    IF current_dates # <<>>
    THEN IF t < current_dates[1] THEN "backward"
         ELSE IF t > current_dates[Len(current_dates)] THEN "forward"
         ELSE "none"
    ELSE "forward"

\* Line 173: the loop condition.
WithinPageLimitOffByOne(n) == n <= MaxPages

WithinPageLimit(n) == n < MaxPages

(***************************************************************************)
(* Lines 381-389: the direction after a click that did not show the target *)
(***************************************************************************)
DirectionAfterClickKept(t, new_dates, d) == d

DirectionAfterClick(t, new_dates, d) ==
    IF new_dates # <<>>
    THEN IF t < new_dates[1] /\ d = "forward" THEN "backward"
         ELSE IF t > new_dates[Len(new_dates)] /\ d = "backward" THEN "forward"
         ELSE d
    ELSE d

(***************************************************************************)
(* The login flow at rest (no call of login in progress).                  *)
(***************************************************************************)
LoginPageUrl == [host |-> "webtop", webtop |-> TRUE, moe |-> FALSE, login |-> TRUE]

\* No pure function is being applied.
FnIdle ==
    /\ arg = [kind |-> "none"]
    /\ result = [kind |-> "pending"]

\* extract_homework at rest.
ExtIdle ==
    /\ sections = <<>>
    /\ etarget = 1
    /\ epc = "idle"
    /\ heading = 0
    /\ table = 0
    /\ nrows = 0
    /\ row_idx = 0
    /\ inner_list = <<>>
    /\ homework_list = <<>>
    /\ eret = [kind |-> "none"]
    /\ eraised = "no"
    /\ qualified = 0
    /\ located = "none"

\* get_today_homework at rest.
ScrIdle ==
    /\ username = [isNone |-> TRUE, chars |-> <<>>]
    /\ password = [isNone |-> TRUE, chars |-> <<>>]
    /\ date = [isNone |-> TRUE, chars |-> <<>>]
    /\ spc = "idle"
    /\ browser = FALSE
    /\ context = FALSE
    /\ target_date = [kind |-> "none"]
    /\ shomework = <<>>
    /\ sret = [kind |-> "none"]
    /\ calls = <<>>

\* _select_username_password_tab at rest.
TabIdle ==
    /\ mpage = [username_visible |-> FALSE, tabs |-> <<>>, password_label |-> <<>>]
    /\ tpc = "idle"
    /\ method = 1
    /\ tret = "none"
    /\ reads = [k \in 1..3 |-> FALSE]
    /\ already = 0
    /\ tabCalls = <<>>

\* _click_moe_button and _click_login_button at rest.
ButtonIdle ==
    /\ control = "none"
    /\ bpc = "idle"
    /\ element = [kind |-> "none"]
    /\ polls = 0
    /\ bret = "none"
    /\ foundBy = 0
    /\ lastRead = [disabled |-> "unread", aria_disabled |-> "unread"]
    /\ bcalls = 0

AuthIdle == TabIdle /\ ButtonIdle

RestIdle == FnIdle /\ ExtIdle /\ ScrIdle /\ AuthIdle

LoginIdle ==
    /\ ci = FALSE
    /\ lurl = LoginPageUrl
    /\ now = 0
    /\ lpc = "idle"
    /\ lret = "none"
    /\ recaptcha_checked = FALSE
    /\ captchaI = 0
    /\ vret = "none"
    /\ ltrace = <<>>
    /\ raisedStep = "none"
    /\ debugCalls = 0
    /\ reloads = 0
    /\ titlesRead = <<>>
    /\ successObserved = FALSE
    /\ timedOut = FALSE
    /\ captchaChecks = 0
    /\ captchaUnresolved = FALSE
    /\ polledAfterCaptcha = FALSE
    /\ captchaSeen = "unchecked"
    /\ captureFailed = FALSE
    /\ finalBy = "none"

(***************************************************************************)
(* The pages the search runs over.  In the open world a click may lead to  *)
(* any page and a control may or may not be there.  In a world of weeks    *)
(* the portal shows one week per page, week w showing the day w; the       *)
(* forward control leads to the next week and the backward control to the  *)
(* previous one, the control that would leave the weeks is disabled, and   *)
(* the weeks have one URL each or, as with client-rendered pagination,     *)
(* share one.                                                              *)
(***************************************************************************)
WeekDays == 1..(MaxPages + 1)

AnyWorld == [kind |-> "any", shared |-> FALSE, start |-> 0]

WeekWorlds == [kind : {"weeks"}, shared : BOOLEAN, start : WeekDays]

WeekUrl(w, wk) == IF w.shared THEN 1 ELSE wk

WeekDates(wk) == {wk}

WeekStep(d) == IF d = "forward" THEN 1 ELSE 0 - 1

\* The control of direction d is there and usable on week wk.
HasControl(wk, d) == (wk + WeekStep(d)) \in WeekDays

\* What _find_navigation_button can return (TRUE: a control, FALSE: None);
\* it swallows every driver error and then returns None.
ControlOutcomes(w, wk, d) ==
    IF w.kind = "any" THEN BOOLEAN
    ELSE IF HasControl(wk, d) THEN {TRUE, FALSE} ELSE {FALSE}

\* The pages that can be shown after n click() calls on the control of
\* direction d; `clean` when the one click() call made returned.  A click()
\* call that raised may or may not have acted.
PagesAfter(w, wk, d, n, clean) ==
    IF w.kind = "any"
    THEN {[url |-> u, dates |-> D, week |-> 0] : u \in Urls, D \in SUBSET Days}
    ELSE {[url |-> WeekUrl(w, k), dates |-> WeekDates(k), week |-> k] :
            k \in {wk + WeekStep(d) * j :
                     j \in (IF clean THEN {1} ELSE 0..n)} \cap WeekDays}

(***************************************************************************)
(* navigate_to_date_page                                                   *)
(***************************************************************************)
PagStart ==
    /\ target \in (IF world.kind = "any" THEN Days ELSE WeekDays)
    /\ week = world.start
    /\ IF world.kind = "any"
       THEN url \in Urls /\ pageDates \in SUBSET Days
       ELSE url = WeekUrl(world, week) /\ pageDates = WeekDates(week)
    /\ ppc = "start"
    /\ direction = "none"
    /\ visited_pages = {}
    /\ pages_checked = 0
    /\ pret = "none"
    /\ attempted = {}
    /\ reattempted = FALSE
    /\ clicks = 0
    /\ iterClicks = 0
    /\ iterFinds = 0
    /\ initRead = FALSE
    /\ initDates = <<>>
    /\ initDirection = "none"
    /\ firstFindDir = "none"
    /\ firstClickDir = "none"
    /\ dates0 = pageDates
    /\ faulted = FALSE
    /\ tried = {}
    /\ lastFind = "none"
    /\ clickedSince = FALSE
    /\ clickResult = [kind |-> "none"]

\* A call of navigate_to_date_page, and the same call with its click attempts
\* logged.
PagInit == world = AnyWorld /\ PagStart /\ logAttempts = FALSE /\ LoginIdle /\ RestIdle

PagInitLogged == world = AnyWorld /\ PagStart /\ logAttempts = TRUE /\ LoginIdle /\ RestIdle

\* A call of navigate_to_date_page on a portal of weeks.
PagInitWeeks ==
    world \in WeekWorlds /\ PagStart /\ logAttempts = FALSE /\ LoginIdle /\ RestIdle

pageFrame == UNCHANGED <<url, pageDates, week, world, target, logAttempts, loginVars,
                         restVars>>
clickHist == UNCHANGED <<attempted, reattempted, clicks, iterClicks, firstClickDir>>
initHist == UNCHANGED <<initRead, initDates, dates0, initDirection>>

\* return <value>
Return(v) ==
    /\ pret' = v
    /\ ppc' = "done"

\* The search takes direction d.
Take(d) ==
    /\ direction' = d
    /\ tried' = tried \cup {d}

\* find_date_on_page returned `found`.
Found(found) ==
    /\ lastFind' = IF found THEN "True" ELSE "False"
    /\ clickedSince' = FALSE

\* A driver call failed: a find that missed a date the page shows, a read
\* that missed dates, a control that is there and was not found, a raise.
Fault(failed) == faulted' = (faulted \/ failed)

\* Lines 144-170: the check of the page the call starts on and the choice of
\* the first direction.
InitialCheck ==
    /\ ppc = "start"
    /\ \E found \in FindDateOutcomes(pageDates, target) :
         /\ Found(found)
         /\ IF found
            THEN /\ Return("True")
                 /\ Fault(FALSE)
                 /\ UNCHANGED <<direction, tried, initRead, initDates, initDirection>>
            ELSE \E current_dates \in GetDatesOutcomes(pageDates) :
                   /\ Fault(target \in pageDates
                            \/ current_dates # SortedSeq(pageDates))
                   /\ initRead' = TRUE
                   /\ initDates' = current_dates
                   /\ initDirection' = ChooseDirection(target, current_dates)
                   /\ IF ChooseDirection(target, current_dates) = "none"
                      THEN /\ Return("False")
                           /\ UNCHANGED <<direction, tried>>
                      ELSE /\ Take(ChooseDirection(target, current_dates))
                           /\ ppc' = "loop"
                           /\ UNCHANGED pret
    /\ pageFrame
    /\ clickHist
    /\ UNCHANGED <<visited_pages, pages_checked, iterFinds, firstFindDir, dates0,
                   clickResult>>

\* Lines 173-186: the loop condition, the counter and the visited check.
LoopHead ==
    /\ ppc = "loop"
    /\ IF ~WithinPageLimit(pages_checked)
       THEN /\ ppc' = "exit"
            /\ UNCHANGED <<pages_checked, direction, tried, visited_pages>>
       ELSE /\ pages_checked' = pages_checked + 1
            /\ IF url \in visited_pages
               THEN IF direction = "forward"
                    THEN /\ Take("backward")
                         /\ visited_pages' = {}
                         /\ ppc' = "loop"
                    ELSE /\ ppc' = "exit"
                         /\ UNCHANGED <<direction, tried, visited_pages>>
               ELSE /\ visited_pages' = visited_pages \cup {url}
                    /\ ppc' = "find"
                    /\ UNCHANGED <<direction, tried>>
    /\ iterClicks' = 0
    /\ iterFinds' = 0
    /\ initRead' = FALSE
    /\ initDates' = <<>>
    /\ dates0' = {}
    /\ clickResult' = [kind |-> "none"]
    /\ pageFrame
    /\ UNCHANGED <<pret, attempted, reattempted, clicks, firstFindDir, firstClickDir,
                   initDirection, faulted, lastFind, clickedSince>>

\* Lines 189-197: locate the control of the current direction, wait for the
\* page (a wait with no handler: it may raise out of the call), look for the
\* target again.  nav_button is kept as the position: "click" when a control
\* was found, "nobutton" when _find_navigation_button returned None.
FindButtonAndRecheck ==
    /\ ppc = "find"
    /\ firstFindDir' = IF firstFindDir = "none" THEN direction ELSE firstFindDir
    /\ \E nav_button \in ControlOutcomes(world, week, direction) :
         /\ iterFinds' = iterFinds + (IF nav_button THEN 1 ELSE 0)
         /\ \/ /\ ppc' = "raised"
               /\ Fault(TRUE)
               /\ UNCHANGED <<pret, lastFind, clickedSince>>
            \/ \E found \in FindDateOutcomes(pageDates, target) :
                 /\ Found(found)
                 /\ Fault(\/ world.kind = "weeks" /\ HasControl(week, direction)
                                                  /\ ~nav_button
                          \/ target \in pageDates /\ ~found)
                 /\ IF found
                    THEN Return("True")
                    ELSE /\ ppc' = IF nav_button THEN "click" ELSE "nobutton"
                         /\ UNCHANGED pret
    /\ pageFrame
    /\ clickHist
    /\ initHist
    /\ UNCHANGED <<direction, tried, visited_pages, pages_checked, clickResult>>

\* Lines 201-207: what navigate_to_date_page does with the pair
\* _click_navigation_button returned.
AfterClickReturn(found, new_direction) ==
    IF found
    THEN /\ Return("True")
         /\ UNCHANGED <<direction, tried, visited_pages>>
    ELSE /\ ppc' = "loop"
         /\ UNCHANGED pret
         /\ IF new_direction # direction
            THEN /\ Take(new_direction)
                 /\ visited_pages' = {}
            ELSE UNCHANGED <<direction, tried, visited_pages>>

\* Lines 390-396: the handler of _click_navigation_button reverses the
\* direction and reports not found.
ClickRaised ==
    /\ AfterClickReturn(FALSE, Opposite(direction))
    /\ Fault(TRUE)
    /\ UNCHANGED lastFind

\* n click() calls on the control, as the driver records them.
RecordClicks(n) ==
    /\ clicks' = clicks + n
    /\ iterClicks' = iterClicks + n
    /\ firstClickDir' = IF firstClickDir = "none" THEN direction ELSE firstClickDir

\* Lines 200-207 with _click_navigation_button (344-396): scroll the control
\* into view and wait for it; click it, and click it again with force when
\* the first click raised; wait for the page, look for the target, read the
\* new dates and adjust the direction.  The page shown after a click() call,
\* whether it returned or raised, is whatever the control led to.
ClickNavigationButton ==
    /\ ppc = "click"
    /\ IF logAttempts
       THEN /\ attempted' = attempted \cup {<<url, direction>>}
            /\ reattempted' = (reattempted \/ <<url, direction>> \in attempted)
       ELSE UNCHANGED <<attempted, reattempted>>
    /\ \/ \* scroll_into_view_if_needed or wait_for raised: no click() call
          /\ ClickRaised
          /\ clickResult' = [kind |-> "raised", clicked |-> FALSE]
          /\ UNCHANGED <<url, pageDates, week, clicks, iterClicks, firstClickDir,
                         clickedSince>>
       \/ \E n \in {1, 2} :          \* 2: the regular click raised
            /\ RecordClicks(n)
            /\ \/ /\ \E p \in PagesAfter(world, week, direction, n, FALSE) :
                       url' = p.url /\ pageDates' = p.dates /\ week' = p.week
                  \* the forced click raised too (n = 2), or
                  \* wait_for_load_state raised
                  /\ ClickRaised
                  /\ clickedSince' = TRUE
                  /\ clickResult' = [kind |-> "raised", clicked |-> TRUE]
               \/ /\ \E p \in PagesAfter(world, week, direction, n, n = 1) :
                       url' = p.url /\ pageDates' = p.dates /\ week' = p.week
                  /\ \E found \in FindDateOutcomes(pageDates', target) :
                       /\ Found(found)
                       /\ IF found
                          THEN /\ AfterClickReturn(TRUE, direction)
                               /\ Fault(n = 2)
                               /\ clickResult' = [kind |-> "found"]
                          ELSE \E new_dates \in GetDatesOutcomes(pageDates') :
                                 /\ AfterClickReturn(FALSE,
                                      DirectionAfterClick(target, new_dates, direction))
                                 /\ Fault(\/ n = 2
                                          \/ target \in pageDates'
                                          \/ new_dates # SortedSeq(pageDates'))
                                 /\ clickResult' = [kind |-> "read",
                                                    new_dates |-> new_dates]
    /\ initHist
    /\ UNCHANGED <<world, target, logAttempts, pages_checked, iterFinds, firstFindDir,
                   loginVars, restVars>>

\* Lines 208-217: no control was found.
NoButton ==
    /\ ppc = "nobutton"
    /\ IF direction = "forward"
       THEN /\ Take("backward")
            /\ visited_pages' = {}
            /\ ppc' = "loop"
       ELSE /\ ppc' = "exit"
            /\ UNCHANGED <<direction, tried, visited_pages>>
    /\ pageFrame
    /\ clickHist
    /\ initHist
    /\ UNCHANGED <<pages_checked, pret, iterFinds, firstFindDir, faulted, lastFind,
                   clickedSince, clickResult>>

\* Lines 219-220.
LoopExit ==
    /\ ppc = "exit"
    /\ Return("False")
    /\ pageFrame
    /\ clickHist
    /\ initHist
    /\ UNCHANGED <<direction, tried, visited_pages, pages_checked, iterFinds,
                   firstFindDir, faulted, lastFind, clickedSince, clickResult>>

PagNext ==
    \/ InitialCheck
    \/ LoopHead
    \/ FindButtonAndRecheck
    \/ ClickNavigationButton
    \/ NoButton
    \/ LoopExit

SpecPagination == PagInit /\ [][PagNext]_vars

SpecPaginationLogged == PagInitLogged /\ [][PagNext]_vars

SpecWeeks == PagInitWeeks /\ [][PagNext]_vars

PagReturned == ppc \in {"done", "raised"}

(***************************************************************************)
(* WebtopAuth: the page as login sees it, and the timing constants         *)
(***************************************************************************)
\* What the code asks of a URL: which host it is on, and whether the texts
\* WEBTOP_DOMAIN, MOE_DOMAIN and LOGIN_PAGE_INDICATOR occur in it.  A URL on
\* a host contains that host's name; any text may occur in path or query.
Hosts == {"webtop", "moe", "other"}

PageUrls ==
    {u \in [host : Hosts, webtop : BOOLEAN, moe : BOOLEAN, login : BOOLEAN] :
        /\ u.host = "webtop" => u.webtop
        /\ u.host = "moe" => u.moe}

Titles == {"normal", "cloudflare", "unsatisfied"}

LOGIN_REDIRECT_LOCAL == 30000

LOGIN_REDIRECT_CI == 60000

LOGIN_REDIRECT(is_ci) == IF is_ci THEN LOGIN_REDIRECT_CI ELSE LOGIN_REDIRECT_LOCAL

RECAPTCHA_CHECK_DELAY == 5

RECAPTCHA_WAIT == 10

LONG == 1

max_wait_time(is_ci) == LOGIN_REDIRECT(is_ci) \div 1000

\* The clock is followed up to the first second past the timeout.
ClockCap(is_ci) == max_wait_time(is_ci) + 1

\* The clock readings possible once at least d seconds have passed since t.
AfterSleep(t, d, is_ci) ==
    IF t + d >= ClockCap(is_ci) THEN {ClockCap(is_ci)}
    ELSE (t + d)..ClockCap(is_ci)

(***************************************************************************)
(* WebtopAuth.login: the order of the flow, and where exceptions go        *)
(***************************************************************************)
LoginStepsSubmitFirst ==
    <<"accept_cookies", "click_moe_button", "handle_moe_login_page",
      "click_login_button", "fill_credentials", "verify_login_success">>

LoginSteps ==
    <<"accept_cookies", "click_moe_button", "handle_moe_login_page",
      "fill_credentials", "click_login_button", "verify_login_success">>

StepAfter(step) ==
    LoginSteps[(CHOOSE i \in DOMAIN LoginSteps : LoginSteps[i] = step) + 1]

\* The places of the flow an exception can come from.
RaisingSteps ==
    {"goto", "title", "reload", "debug_blocked", "click_moe_button",
     "wait_for_load_state", "find_username", "fill_username",
     "find_password", "click_password", "fill_password",
     "find_login_button", "click_login_button", "debug_timeout",
     "debug_unverified"}

FieldLookups == {"find_username", "find_password"}

CaughtByLoginExceptFieldLookups(step) == step \in RaisingSteps \ FieldLookups

\* Every statement of the flow is inside login's try block.
CaughtByLogin(step) == step \in RaisingSteps

BlockedFirst(page_title) == page_title \in {"unsatisfied", "cloudflare"}

BlockedAfterReload(page_title) == page_title = "unsatisfied"

\* What no step of login changes, and what no step after the page load does.
otherFrame == UNCHANGED <<pagVars, ci, restVars>>

loginFrame == otherFrame /\ UNCHANGED titlesRead

\* _debug_login_failure, lines 498-531: the reads of the title and of the
\* body text and the screenshot are inside try blocks, so the call goes on
\* the same way whether they fail or not.  A step that makes no call leaves
\* the record alone.
Captured ==
    IF debugCalls' = debugCalls THEN captureFailed' = captureFailed
    ELSE \E failed \in BOOLEAN : captureFailed' = (captureFailed \/ failed)

verifyHist == UNCHANGED <<successObserved, timedOut, captchaChecks,
                          captchaUnresolved, polledAfterCaptcha, captchaSeen,
                          finalBy>>

verifyLocals == UNCHANGED <<lurl, now, recaptcha_checked, captchaI, vret>>

\* An exception leaves `step`: into login's handler, or out of login.
Raise(step) ==
    /\ raisedStep' = step
    /\ IF CaughtByLogin(step)
       THEN lpc' = "except" /\ lret' = lret
       ELSE lpc' = "done" /\ lret' = "raised"

\* login returns v.
LoginReturn(v) == lpc' = "done" /\ lret' = v

\* Lines 40-58: load the login page, check for the Cloudflare block page.
LoadLoginPage ==
    /\ lpc = "load"
    /\ \/ /\ \E step \in {"goto", "title"} : Raise(step)
          /\ UNCHANGED <<debugCalls, reloads, titlesRead>>
       \/ \E page_title \in Titles :
            IF ~BlockedFirst(page_title)
            THEN /\ lpc' = LoginSteps[1]
                 /\ titlesRead' = <<page_title>>
                 /\ UNCHANGED <<lret, raisedStep, debugCalls, reloads>>
            ELSE /\ reloads' = reloads + 1
                 /\ \/ /\ \E step \in {"reload", "title"} : Raise(step)
                       /\ titlesRead' = <<page_title>>
                       /\ UNCHANGED debugCalls
                    \/ \E retitle \in Titles :
                         /\ titlesRead' = <<page_title, retitle>>
                         /\ IF BlockedAfterReload(retitle)
                            THEN /\ debugCalls' = debugCalls + 1
                                 /\ \/ Raise("debug_blocked")
                                    \/ LoginReturn("False") /\ UNCHANGED raisedStep
                            ELSE /\ lpc' = LoginSteps[1]
                                 /\ UNCHANGED <<lret, raisedStep, debugCalls>>
    /\ UNCHANGED ltrace
    /\ verifyLocals /\ verifyHist /\ Captured /\ otherFrame

\* Lines 88-96: _accept_cookies swallows every exception.
AcceptCookies ==
    /\ lpc = "accept_cookies"
    /\ ltrace' = Append(ltrace, "consent")
    /\ lpc' = StepAfter("accept_cookies")
    /\ UNCHANGED <<lret, raisedStep, debugCalls, reloads>>
    /\ verifyLocals /\ verifyHist /\ Captured /\ loginFrame

\* Lines 98-111: wait for the control, poll until enabled, click.
ClickMoeButton ==
    /\ lpc = "click_moe_button"
    /\ \/ Raise("click_moe_button") /\ UNCHANGED ltrace
       \/ /\ ltrace' = Append(ltrace, "moe_click")
          /\ lpc' = StepAfter("click_moe_button")
          /\ UNCHANGED <<lret, raisedStep>>
    /\ UNCHANGED <<debugCalls, reloads>>
    /\ verifyLocals /\ verifyHist /\ Captured /\ loginFrame

\* Lines 113-144: the URL wait is guarded, the load-state wait is not; tab
\* selection swallows every exception.
HandleMoeLoginPage ==
    /\ lpc = "handle_moe_login_page"
    /\ \/ Raise("wait_for_load_state") /\ UNCHANGED ltrace
       \/ /\ ltrace' = ltrace \o <<"idp_wait", "tab_select">>
          /\ lpc' = StepAfter("handle_moe_login_page")
          /\ UNCHANGED <<lret, raisedStep>>
    /\ UNCHANGED <<debugCalls, reloads>>
    /\ verifyLocals /\ verifyHist /\ Captured /\ loginFrame

\* Lines 237-239 of _fill_credentials: find the username field, fill it.
FillUsername ==
    /\ lpc = "fill_credentials"
    /\ \/ /\ \E step \in {"find_username", "fill_username"} : Raise(step)
          /\ UNCHANGED ltrace
       \/ /\ ltrace' = Append(ltrace, "fill_username")
          /\ lpc' = "fill_password"
          /\ UNCHANGED <<lret, raisedStep>>
    /\ UNCHANGED <<debugCalls, reloads>>
    /\ verifyLocals /\ verifyHist /\ Captured /\ loginFrame

\* Lines 243-248 of _fill_credentials: find the password field, click it,
\* fill it.
FillPassword ==
    /\ lpc = "fill_password"
    /\ \/ /\ \E step \in {"find_password", "click_password"} : Raise(step)
          /\ UNCHANGED ltrace
       \/ /\ ltrace' = Append(ltrace, "click_password")
          /\ Raise("fill_password")
       \/ /\ ltrace' = ltrace \o <<"click_password", "fill_password">>
          /\ lpc' = StepAfter("fill_credentials")
          /\ UNCHANGED <<lret, raisedStep>>
    /\ UNCHANGED <<debugCalls, reloads>>
    /\ verifyLocals /\ verifyHist /\ Captured /\ loginFrame

\* Lines 284-369: find the login control, poll until enabled, click.
ClickLoginButton ==
    /\ lpc = "click_login_button"
    /\ \/ /\ \E step \in {"find_login_button", "click_login_button"} : Raise(step)
          /\ UNCHANGED ltrace
       \/ /\ ltrace' = Append(ltrace, "login_click")
          /\ lpc' = StepAfter("click_login_button")
          /\ UNCHANGED <<lret, raisedStep>>
    /\ UNCHANGED <<debugCalls, reloads>>
    /\ verifyLocals /\ verifyHist /\ Captured /\ loginFrame

(***************************************************************************)
(* WebtopAuth._verify_login_success and _handle_recaptcha                  *)
(***************************************************************************)
\* Line 383.
Redirected(current_url) == current_url.webtop /\ ~current_url.login

RecaptchaDueEveryPoll(checked, elapsed) == elapsed > RECAPTCHA_CHECK_DELAY

\* Line 395.
RecaptchaDue(checked, elapsed) == ~checked /\ elapsed > RECAPTCHA_CHECK_DELAY

\* What _handle_recaptcha can find: no iframe, a hidden one, a visible one,
\* or a driver error (lines 469-472 and 490-491).
CaptchaFindings == {"absent", "hidden", "visible", "error"}

StartsCaptchaWaitWhenPresent(seen) == seen \in {"hidden", "visible"}

\* Lines 470-473: the wait starts for a visible iframe.
StartsCaptchaWait(seen) == seen = "visible"

\* Line 424.
FinalUrlAccepted(current_url) == ~current_url.login /\ ~current_url.moe

\* Lines 374-376.
VerifyStart ==
    /\ lpc = "verify_login_success"
    /\ ltrace' = Append(ltrace, "verify")
    /\ now' = 0
    /\ recaptcha_checked' = FALSE
    /\ lpc' = "poll"
    /\ UNCHANGED <<lurl, captchaI, vret, lret, raisedStep, debugCalls, reloads>>
    /\ verifyHist /\ Captured /\ loginFrame

\* Lines 400-406, with `waited` seconds spent since `elapsed` was taken.
PollTail(elapsed, waited) ==
    IF elapsed > max_wait_time(ci)
    THEN /\ timedOut' = TRUE
         /\ debugCalls' = debugCalls + 1
         /\ now' = now
         /\ \/ Raise("debug_timeout")
            \/ lpc' = "final" /\ UNCHANGED <<lret, raisedStep>>
    ELSE /\ now' \in AfterSleep(now, waited + LONG, ci)
         /\ lpc' = "poll"
         /\ UNCHANGED <<timedOut, debugCalls, lret, raisedStep>>

\* Lines 379-406: one iteration of the poll, up to the CAPTCHA wait.
VerifyPoll ==
    /\ lpc = "poll"
    /\ polledAfterCaptcha' = (polledAfterCaptcha \/ captchaUnresolved)
    /\ \E current_url \in PageUrls :
        /\ lurl' = current_url
        /\ IF Redirected(current_url)
           THEN /\ successObserved' = TRUE
                /\ lpc' = "final"
                /\ UNCHANGED <<now, lret, recaptcha_checked, captchaI, vret,
                               raisedStep, debugCalls, timedOut, captchaChecks,
                               captchaSeen>>
           ELSE /\ UNCHANGED successObserved
                /\ \/ /\ current_url.moe       \* _check_for_errors: True
                      /\ vret' = "False"
                      /\ lpc' = "unverified"
                      /\ UNCHANGED <<now, lret, recaptcha_checked, captchaI,
                                     raisedStep, debugCalls, timedOut,
                                     captchaChecks, captchaSeen>>
                   \/ /\ current_url.moe
                      /\ RecaptchaDue(recaptcha_checked, now)
                      /\ recaptcha_checked' = TRUE
                      /\ captchaChecks' = captchaChecks + 1
                      /\ UNCHANGED vret
                      /\ \E seen \in CaptchaFindings :
                            /\ captchaSeen' = seen
                            /\ IF StartsCaptchaWait(seen)
                               THEN /\ lpc' = "captcha"
                                    /\ captchaI' = 0
                                    /\ UNCHANGED <<now, lret, raisedStep,
                                                   debugCalls, timedOut>>
                               ELSE /\ UNCHANGED captchaI
                                    /\ PollTail(now, 0)
                   \/ /\ ~(current_url.moe /\ RecaptchaDue(recaptcha_checked, now))
                      /\ UNCHANGED <<recaptcha_checked, captchaI, vret,
                                     captchaChecks, captchaSeen>>
                      /\ PollTail(now, 0)
    /\ UNCHANGED <<captchaUnresolved, finalBy, ltrace, reloads>>
    /\ Captured /\ loginFrame

\* Lines 479-485 and 490-492: one iteration of the CAPTCHA wait; when the
\* wait ends without a redirect the caller goes on at line 400 with the
\* elapsed time it took before the wait.
RecaptchaWait ==
    /\ lpc = "captcha"
    /\ \/ /\ captchaI < RECAPTCHA_WAIT
          /\ \E current_url \in PageUrls :
                /\ successObserved' = (successObserved \/ Redirected(current_url))
                /\ IF current_url.webtop
                   THEN lpc' = "final" /\ captchaI' = 0
                   ELSE lpc' = "captcha" /\ captchaI' = captchaI + 1
          /\ UNCHANGED <<now, lret, raisedStep, debugCalls, timedOut,
                         captchaUnresolved>>
       \/ /\ captchaI <= RECAPTCHA_WAIT     \* loop exhausted, or an error
          /\ captchaUnresolved' = TRUE
          /\ captchaI' = 0
          /\ PollTail(now, captchaI * LONG)
          /\ UNCHANGED successObserved
    /\ UNCHANGED <<lurl, recaptcha_checked, vret, captchaChecks,
                   polledAfterCaptcha, captchaSeen, finalBy, ltrace, reloads>>
    /\ Captured /\ loginFrame

\* Lines 411-445, and lines 74-78 of login for a True result.
VerifyFinal ==
    /\ lpc = "final"
    /\ \E current_url \in PageUrls, dashboard \in BOOLEAN :
        /\ lurl' = current_url
        /\ successObserved' = (successObserved \/ Redirected(current_url))
        /\ finalBy' = IF FinalUrlAccepted(current_url) THEN "url"
                      ELSE IF dashboard THEN "dashboard" ELSE "none"
        /\ vret' = IF FinalUrlAccepted(current_url) \/ dashboard
                   THEN "True" ELSE "False"
        /\ IF FinalUrlAccepted(current_url) \/ dashboard
           THEN LoginReturn("True")
           ELSE lpc' = "unverified" /\ UNCHANGED lret
    /\ UNCHANGED <<now, recaptcha_checked, captchaI, raisedStep, debugCalls,
                   timedOut, captchaChecks, captchaUnresolved,
                   polledAfterCaptcha, captchaSeen, ltrace, reloads>>
    /\ Captured /\ loginFrame

ReturnUnverifiedWithoutCapture ==
    /\ lpc = "unverified"
    /\ LoginReturn("False")
    /\ UNCHANGED <<raisedStep, debugCalls, ltrace, reloads>>
    /\ verifyLocals /\ verifyHist /\ Captured /\ loginFrame

\* Lines 75-78 of login: verification returned False.
DebugUnverified ==
    /\ lpc = "unverified"
    /\ debugCalls' = debugCalls + 1
    /\ \/ Raise("debug_unverified")
       \/ LoginReturn("False") /\ UNCHANGED raisedStep
    /\ UNCHANGED <<ltrace, reloads>>
    /\ verifyLocals /\ verifyHist /\ Captured /\ loginFrame

HandlerResultUnguarded(debug_raised) == IF debug_raised THEN "raised" ELSE "False"

\* Lines 82-86: the handler's own diagnostic capture is guarded.
HandlerResult(debug_raised) == "False"

\* Lines 80-86 of login.
LoginExcept ==
    /\ lpc = "except"
    /\ debugCalls' = debugCalls + 1
    /\ \E debug_raised \in BOOLEAN : LoginReturn(HandlerResult(debug_raised))
    /\ UNCHANGED <<raisedStep, ltrace, reloads>>
    /\ verifyLocals /\ verifyHist /\ Captured /\ loginFrame

LoginNext ==
    \/ LoadLoginPage
    \/ AcceptCookies
    \/ ClickMoeButton
    \/ HandleMoeLoginPage
    \/ FillUsername
    \/ FillPassword
    \/ ClickLoginButton
    \/ VerifyStart
    \/ VerifyPoll
    \/ RecaptchaWait
    \/ VerifyFinal
    \/ DebugUnverified
    \/ LoginExcept

\* navigate_to_date_page at rest, while login runs.
PagIdle ==
    /\ url = 1
    /\ pageDates = {}
    /\ target = 1
    /\ ppc = "idle"
    /\ direction = "none"
    /\ visited_pages = {}
    /\ pages_checked = 0
    /\ pret = "none"
    /\ logAttempts = FALSE
    /\ attempted = {}
    /\ reattempted = FALSE
    /\ clicks = 0
    /\ iterClicks = 0
    /\ iterFinds = 0
    /\ initRead = FALSE
    /\ initDates = <<>>
    /\ dates0 = {}
    /\ initDirection = "none"
    /\ firstFindDir = "none"
    /\ firstClickDir = "none"
    /\ tried = {}
    /\ lastFind = "none"
    /\ clickedSince = FALSE
    /\ clickResult = [kind |-> "none"]
    /\ faulted = FALSE
    /\ world = [kind |-> "any", shared |-> FALSE, start |-> 0]
    /\ week = 0

LoginInit ==
    /\ PagIdle
    /\ RestIdle
    /\ ci \in BOOLEAN
    /\ lurl = LoginPageUrl
    /\ now = 0
    /\ lpc = "load"
    /\ lret = "none"
    /\ recaptcha_checked = FALSE
    /\ captchaI = 0
    /\ vret = "none"
    /\ ltrace = <<>>
    /\ raisedStep = "none"
    /\ debugCalls = 0
    /\ reloads = 0
    /\ titlesRead = <<>>
    /\ successObserved = FALSE
    /\ timedOut = FALSE
    /\ captchaChecks = 0
    /\ captchaUnresolved = FALSE
    /\ polledAfterCaptcha = FALSE
    /\ captchaSeen = "unchecked"
    /\ captureFailed = FALSE
    /\ finalBy = "none"

SpecLogin == LoginInit /\ [][LoginNext]_vars

(***************************************************************************)
(* Text.  A str is a sequence of one-character strings.                    *)
(***************************************************************************)
DigitChars == <<"0", "1", "2", "3", "4", "5", "6", "7", "8", "9">>

IsDigit(c) == \E i \in DOMAIN DigitChars : DigitChars[i] = c

DigitVal(c) == (CHOOSE i \in DOMAIN DigitChars : DigitChars[i] = c) - 1

IsSpace(c) == c \in {" ", "\n"}

\* str.strip()
RECURSIVE LStrip(_)
LStrip(s) == IF s # <<>> /\ IsSpace(Head(s)) THEN LStrip(Tail(s)) ELSE s

RECURSIVE RStrip(_)
RStrip(s) ==
    IF s # <<>> /\ IsSpace(s[Len(s)]) THEN RStrip(SubSeq(s, 1, Len(s) - 1))
    ELSE s

Strip(s) == RStrip(LStrip(s))

\* a in b
IsSubstring(a, b) ==
    \E i \in 0..(Len(b) - Len(a)) : SubSeq(b, i + 1, i + Len(a)) = a

\* str.split(sep) for a one-character sep
RECURSIVE Split(_, _)
Split(s, sep) ==
    IF \E i \in DOMAIN s : s[i] = sep
    THEN LET i == CHOOSE k \in DOMAIN s :
                    s[k] = sep /\ \A j \in 1..(k - 1) : s[j] # sep
         IN  <<SubSeq(s, 1, i - 1)>> \o Split(SubSeq(s, i + 1, Len(s)), sep)
    ELSE <<s>>

\* int(s) for a str of digits
RECURSIVE IntOf(_)
IntOf(s) ==
    IF s = <<>> THEN 0
    ELSE 10 * IntOf(SubSeq(s, 1, Len(s) - 1)) + DigitVal(s[Len(s)])

AllDigits(s) == \A i \in DOMAIN s : IsDigit(s[i])

\* The number n written with `width` digits, zero-padded (%d, %m: 2; %Y: 4).
RECURSIVE Padded(_, _)
Padded(n, width) ==
    IF width = 0 THEN <<>>
    ELSE Padded(n \div 10, width - 1) \o <<DigitChars[(n % 10) + 1]>>

(***************************************************************************)
(* utils.parse_date, with datetime.strptime and strftime for the           *)
(* directives %d, %m and %Y.                                               *)
(***************************************************************************)
None == [kind |-> "None"]

ValueError == [kind |-> "ValueError"]

Date(y, m, d) == [kind |-> "date", year |-> y, month |-> m, day |-> d]

IsLeap(y) == (y % 4 = 0 /\ y % 100 # 0) \/ y % 400 = 0

DaysInMonth(y, m) ==
    IF m = 2 THEN (IF IsLeap(y) THEN 29 ELSE 28)
    ELSE IF m \in {4, 6, 9, 11} THEN 30 ELSE 31

\* A format is the order of its three directives and its separator.
Format(order, sep) == [order |-> order, sep |-> sep]

DATE_FORMAT_DISPLAY == Format("dmy", "/")

date_formats_colon ==
    <<Format("dmy", "-"), Format("dmy", "/"), Format("ymd", "-"),
      Format("ymd", "/"), Format("dmy", ":")>>

date_formats_month_first ==
    <<Format("mdy", "-"), Format("dmy", "/"), Format("ymd", "-"),
      Format("ymd", "/"), Format("dmy", ".")>>

date_formats ==
    <<Format("dmy", "-"), Format("dmy", "/"), Format("ymd", "-"),
      Format("ymd", "/"), Format("dmy", ".")>>

\* The field of each directive when parsing: %d and %m take one or two
\* digits, %Y takes four.
FieldOk(directive, f) ==
    /\ AllDigits(f)
    /\ IF directive = "y" THEN Len(f) = 4 /\ IntOf(f) >= 1
       ELSE /\ Len(f) \in {1, 2}
            /\ IntOf(f) >= 1
            /\ IntOf(f) <= (IF directive = "d" THEN 31 ELSE 12)

Directives(order) ==
    IF order = "dmy" THEN <<"d", "m", "y">>
    ELSE IF order = "mdy" THEN <<"m", "d", "y">>
    ELSE <<"y", "m", "d">>

FieldOf(directive, order, fields) ==
    fields[CHOOSE i \in 1..3 : Directives(order)[i] = directive]

\* datetime.strptime(s, fmt)
strptime(s, fmt) ==
    LET fields == Split(s, fmt.sep)
        dirs == Directives(fmt.order)
    IN  IF Len(fields) # 3 THEN ValueError
        ELSE IF \E i \in 1..3 : ~FieldOk(dirs[i], fields[i]) THEN ValueError
        ELSE LET y == IntOf(FieldOf("y", fmt.order, fields))
                 m == IntOf(FieldOf("m", fmt.order, fields))
                 d == IntOf(FieldOf("d", fmt.order, fields))
             IN  IF d <= DaysInMonth(y, m) THEN Date(y, m, d) ELSE ValueError

\* dt.strftime(fmt)
strftime(dt, fmt) ==
    LET part(directive) ==
            IF directive = "y" THEN Padded(dt.year, 4)
            ELSE IF directive = "m" THEN Padded(dt.month, 2)
            ELSE Padded(dt.day, 2)
        dirs == Directives(fmt.order)
    IN  part(dirs[1]) \o <<fmt.sep>> \o part(dirs[2]) \o <<fmt.sep>> \o part(dirs[3])

\* The loop of lines 32-36 from format i on, and line 38.
RECURSIVE TryFormats(_, _)
TryFormats(date_str, i) ==
    IF i > Len(date_formats) THEN ValueError
    ELSE LET parsed == strptime(Strip(date_str), date_formats[i])
         IN  IF parsed # ValueError THEN parsed
             ELSE TryFormats(date_str, i + 1)

\* parse_date(date_str); date_str is [isNone, chars].
parse_date(date_str) ==
    IF date_str.isNone THEN None ELSE TryFormats(date_str.chars, 1)

(***************************************************************************)
(* parse_date applied to one input.                                        *)
(***************************************************************************)
Years == {2023, 2024}

CalendarDates ==
    {dt \in {Date(y, m, d) : y \in Years, m \in 1..12, d \in 1..31} :
        dt.day <= DaysInMonth(dt.year, dt.month)}

Pads == {<<>>, <<" ">>}

Separators == {"-", "/", ".", ":"}

Tokens ==
    {<<"1">>, <<"2">>, <<"0", "1">>,
     <<"1", "3">>, <<"2", "9">>, <<"3", "1">>, <<"3", "2">>,
     <<"2", "0", "2", "3">>, <<"2", "0", "2", "4">>, <<"x">>}

Str(chars) == [isNone |-> FALSE, chars |-> chars]

NoneStr == [isNone |-> TRUE, chars |-> <<>>]

\* The renderings a caller may use: DD-MM-YYYY, DD/MM/YYYY, YYYY-MM-DD,
\* YYYY/MM/DD and DD.MM.YYYY.
Renderings ==
    {Format("dmy", "-"), Format("dmy", "/"), Format("ymd", "-"),
     Format("ymd", "/"), Format("dmy", ".")}

\* The five renderings of every date, with and without whitespace around.
RenderedInputs(dates) ==
    {[kind |-> "str", rendered |-> dt, str |-> Str(l \o strftime(dt, fmt) \o r)] :
        dt \in dates, fmt \in Renderings, l \in Pads, r \in Pads}

\* Three tokens and two separators, with and without whitespace around.
TokenInputs(tokens) ==
    {[kind |-> "str", rendered |-> None,
      str |-> Str(l \o t1 \o <<s1>> \o t2 \o <<s2>> \o t3 \o r)] :
        t1 \in tokens, t2 \in tokens, t3 \in tokens,
        s1 \in Separators, s2 \in Separators, l \in Pads, r \in Pads}

ParseInputs(dates, tokens) ==
    RenderedInputs(dates) \cup TokenInputs(tokens) \cup
    {[kind |-> "str", rendered |-> None, str |-> NoneStr],
     [kind |-> "str", rendered |-> None, str |-> Str(<<>>)],
     [kind |-> "str", rendered |-> None, str |-> Str(<<" ">>)]}

ParseInit ==
    /\ arg \in ParseInputs(CalendarDates, Tokens)
    /\ result = [kind |-> "pending"]
    /\ ExtIdle /\ ScrIdle /\ PagIdle /\ LoginIdle /\ AuthIdle

ApplyParseDate ==
    /\ arg.kind = "str"
    /\ result.kind = "pending"
    /\ result' = parse_date(arg.str)
    /\ UNCHANGED <<arg, pagVars, loginVars, extVars, scrVars, authVars>>

SpecParseDate == ParseInit /\ [][ApplyParseDate]_vars

(***************************************************************************)
(* WebtopExtractor._combine_content                                        *)
(***************************************************************************)
NO_HOMEWORK_PLACEHOLDER == <<"א", "י", "ן">>

EMPTY_LESSON_PLACEHOLDER == <<"-", "-", "-">>

\* " | ".join(combined_content)
RECURSIVE Join(_)
Join(parts) ==
    IF parts = <<>> THEN <<>>
    ELSE IF Len(parts) = 1 THEN parts[1]
    ELSE parts[1] \o <<" ", "|", " ">> \o Join(Tail(parts))

_combine_content_either_side(lesson_topic, homework) ==
    LET placeholders == {EMPTY_LESSON_PLACEHOLDER, NO_HOMEWORK_PLACEHOLDER, <<>>}
        first == IF lesson_topic \notin placeholders
                 THEN <<lesson_topic>> ELSE <<>>
        second == IF homework \notin placeholders THEN <<homework>> ELSE <<>>
    IN  Join(first \o second)

_combine_content(lesson_topic, homework) ==
    LET first == IF lesson_topic # <<>>
                    /\ lesson_topic \notin {EMPTY_LESSON_PLACEHOLDER, <<>>}
                 THEN <<lesson_topic>> ELSE <<>>
        second == IF homework # <<>>
                     /\ homework \notin {<<"-", "-">>, NO_HOMEWORK_PLACEHOLDER, <<>>}
                  THEN <<homework>> ELSE <<>>
    IN  Join(first \o second)

CombineTexts ==
    {<<>>, EMPTY_LESSON_PLACEHOLDER, NO_HOMEWORK_PLACEHOLDER, <<"-", "-">>,
     <<"-">>, <<"a">>, <<"b", " ", "c">>, <<" ">>}

CombineInit ==
    /\ arg \in {[kind |-> "combine", lesson_topic |-> l, homework |-> h] :
                    l \in CombineTexts, h \in CombineTexts}
    /\ result = [kind |-> "pending"]
    /\ ExtIdle /\ ScrIdle /\ PagIdle /\ LoginIdle /\ AuthIdle

ApplyCombineContent ==
    /\ arg.kind = "combine"
    /\ result.kind = "pending"
    /\ result' = [kind |-> "str",
                  chars |-> _combine_content(arg.lesson_topic, arg.homework)]
    /\ UNCHANGED <<arg, pagVars, loginVars, extVars, scrVars, authVars>>

SpecCombine == CombineInit /\ [][ApplyCombineContent]_vars

(***************************************************************************)
(* WebtopExtractor: the homework page                                      *)
(***************************************************************************)
\* A table has at most MaxRows data rows.
MaxRows == 2

\* The days of the model are days of one month.
DayDate(d) == Date(2024, 1, d)

\* target_date.strftime(Selectors.DATE_FORMAT_DISPLAY)
DisplayOfDay(d) == strftime(DayDate(d), DATE_FORMAT_DISPLAY)

\* A page shows its dates in order, one mat-card per date: a heading with
\* the date and, below it, the table of that date, whose aria-label names
\* the date when it has one.
SectionsOf(days) ==
    {secs \in [1..Cardinality(days) ->
                  [date : days, hasTable : BOOLEAN, labelled : BOOLEAN]] :
        /\ \A i \in DOMAIN secs : secs[i].date = SortedSeq(days)[i]
        /\ \A i \in DOMAIN secs : secs[i].labelled => secs[i].hasTable}

HomeworkPages == UNION {SectionsOf(days) : days \in SUBSET Days}

HeadingText(sec) == <<"x", " ">> \o DisplayOfDay(sec.date)

AriaLabel(sec) == <<"t", " ">> \o DisplayOfDay(sec.date)

FirstIndex(S) == IF S = {} THEN 0 ELSE SetMin(S)

\* Lines 116-128: the first heading whose text contains the date.
_find_date_heading(page, target_date_str) ==
    FirstIndex({i \in DOMAIN page :
                    IsSubstring(target_date_str, HeadingText(page[i]))})

\* Lines 148-154, 164-180 and 229-241: the first table whose aria-label
\* contains the date.
TableByAriaLabel(page, target_date_str) ==
    FirstIndex({i \in DOMAIN page :
                    /\ page[i].labelled
                    /\ IsSubstring(target_date_str, AriaLabel(page[i]))})

FirstTableOnPage(page, target_date_str) ==
    FirstIndex({i \in DOMAIN page : page[i].hasTable})

\* Lines 192-215: the first table inside the first card that holds a
\* heading with the date and a table.
TableByParentCard(page, target_date_str) ==
    FirstIndex({i \in DOMAIN page :
                    /\ IsSubstring(target_date_str, HeadingText(page[i]))
                    /\ page[i].hasTable})

\* Lines 148-248: four methods in turn, each giving up when a driver call
\* raises (ok[k] says method k ran without that).
_find_date_table(page, target_date_str, ok) ==
    LET m1 == IF ok[1] THEN TableByAriaLabel(page, target_date_str) ELSE 0
        m2 == IF ok[2] THEN TableByAriaLabel(page, target_date_str) ELSE 0
        m3 == IF ok[3] THEN TableByParentCard(page, target_date_str) ELSE 0
        m4 == IF ok[4] THEN TableByAriaLabel(page, target_date_str) ELSE 0
    IN  IF m1 # 0 THEN m1 ELSE IF m2 # 0 THEN m2 ELSE IF m3 # 0 THEN m3 ELSE m4

\* What the subject cell of a row can hold: a button or link with its text,
\* the text of the cell, and whether reading it raises.
SubjectCells ==
    {[button |-> FALSE, button_text |-> <<>>, text |-> <<"m">>, raises |-> FALSE],
     [button |-> TRUE, button_text |-> <<" ", "m", " ">>, text |-> <<>>, raises |-> FALSE],
     [button |-> TRUE, button_text |-> <<" ">>, text |-> <<"m">>, raises |-> FALSE],
     [button |-> FALSE, button_text |-> <<>>, text |-> <<" ">>, raises |-> FALSE],
     [button |-> TRUE, button_text |-> <<"m">>, text |-> <<"m">>, raises |-> TRUE]}

\* Lines 339-363.
_extract_subject(subject_cell) ==
    IF subject_cell.raises THEN <<>>
    ELSE IF subject_cell.button /\ subject_cell.button_text # <<>>
         THEN Strip(subject_cell.button_text)
    ELSE IF subject_cell.text # <<>> THEN Strip(subject_cell.text)
    ELSE <<>>

\* The cleaned text of the lesson-topic and homework cells (_extract_cell_text).
LessonTexts == {<<>>, EMPTY_LESSON_PLACEHOLDER, <<"t">>}

HomeworkTexts == {NO_HOMEWORK_PLACEHOLDER, <<"h">>}

CellCounts == {5, 6}

KeepRowWithContent(subject, combined) == subject # <<>> /\ combined # <<>>

\* Line 290.
KeepRow(subject, combined) == subject # <<>>

(***************************************************************************)
(* WebtopExtractor.extract_homework and _extract_table_data                *)
(***************************************************************************)
\* What no step of extract_homework changes, and what no step after the
\* search for the date does.
pageAndOthers ==
    UNCHANGED <<sections, etarget, pagVars, loginVars, fnVars, scrVars, authVars>>

extFrame == pageAndOthers /\ UNCHANGED located

\* Lines 52-55: the date is neither on the page nor reached by pagination.
UnreachableNever(found_on_page, navigated) == FALSE

Unreachable(found_on_page, navigated) == ~found_on_page /\ ~navigated

\* extract_homework returns `list`.
ExtractReturn(list) == epc' = "done" /\ eret' = [kind |-> "list", list |-> list]

\* An exception leaves the try block of lines 40-79 from `place`.
ExtractRaise(place) == epc' = "except" /\ eraised' = place /\ UNCHANGED eret

\* Lines 38-59: wait for the page, look for the date, paginate to it.
\* find_date_on_page returns a bool; navigate_to_date_page returns a bool or
\* raises (its wait at pagination.py:192 has no handler).
ExtractStart ==
    /\ epc = "start"
    /\ \/ ExtractRaise("start") /\ UNCHANGED located
       \/ \E found_on_page \in BOOLEAN :
            IF found_on_page
            THEN /\ located' = "found"
                 /\ epc' = "find_heading"
                 /\ UNCHANGED <<eret, eraised>>
            ELSE \/ ExtractRaise("navigate") /\ UNCHANGED located
                 \/ \E navigated \in BOOLEAN :
                       /\ located' = IF navigated THEN "navigated" ELSE "unreachable"
                       /\ IF Unreachable(found_on_page, navigated)
                          THEN ExtractReturn(homework_list)
                          ELSE epc' = "find_heading" /\ UNCHANGED eret
                       /\ UNCHANGED eraised
    /\ UNCHANGED <<heading, table, nrows, row_idx, inner_list, homework_list,
                   qualified>>
    /\ pageAndOthers

\* Lines 62-65 with _find_date_heading (lines 88-128).
FindDateHeading ==
    /\ epc = "find_heading"
    /\ \/ ExtractRaise("heading") /\ UNCHANGED heading
       \/ /\ heading' = _find_date_heading(sections, DisplayOfDay(etarget))
          /\ IF heading' = 0
             THEN ExtractReturn(homework_list)
             ELSE epc' = "find_table" /\ UNCHANGED eret
          /\ UNCHANGED eraised
    /\ UNCHANGED <<table, nrows, row_idx, inner_list, homework_list, qualified>>
    /\ extFrame

\* Lines 69-72 with _find_date_table (lines 130-248).
FindDateTable ==
    /\ epc = "find_table"
    /\ \E ok \in [1..4 -> BOOLEAN] :
          table' = _find_date_table(sections, DisplayOfDay(etarget), ok)
    /\ IF table' = 0
       THEN ExtractReturn(homework_list)
       ELSE epc' = "rows" /\ UNCHANGED eret
    /\ UNCHANGED <<heading, nrows, row_idx, inner_list, homework_list, eraised,
                   qualified>>
    /\ extFrame

\* Lines 252-262 of _extract_table_data.
TableRows ==
    /\ epc = "rows"
    /\ \/ ExtractRaise("rows") /\ UNCHANGED <<nrows, row_idx, inner_list>>
       \/ /\ nrows' \in 0..MaxRows
          /\ row_idx' = 0
          /\ inner_list' = <<>>
          /\ epc' = "row"
          /\ UNCHANGED <<eret, eraised>>
    /\ UNCHANGED <<heading, table, homework_list, qualified>>
    /\ extFrame

\* Lines 264-310: one row.
ProcessRow ==
    /\ epc = "row"
    /\ row_idx < nrows
    /\ \/ ExtractRaise("row") /\ UNCHANGED <<row_idx, inner_list, qualified>>
       \/ \E cells \in CellCounts, subject_cell \in SubjectCells,
             lesson_topic \in LessonTexts, homework \in HomeworkTexts :
            LET subject == _extract_subject(subject_cell)
                combined == _combine_content(lesson_topic, homework)
                homework_item ==
                    [subject |-> subject, lesson_topic |-> lesson_topic,
                     homework |-> homework, combined |-> combined,
                     date |-> DisplayOfDay(etarget), section |-> table]
            IN  /\ inner_list' = IF cells >= 6 /\ KeepRow(subject, combined)
                                 THEN Append(inner_list, homework_item)
                                 ELSE inner_list
                /\ qualified' = IF cells >= 6 /\ subject # <<>>
                                THEN qualified + 1 ELSE qualified
                /\ row_idx' = row_idx + 1
                /\ UNCHANGED <<epc, eret, eraised>>
    /\ UNCHANGED <<heading, table, nrows, homework_list>>
    /\ extFrame

\* Line 312, and lines 76-79 of extract_homework.
TableDone ==
    /\ epc = "row"
    /\ row_idx = nrows
    /\ homework_list' = inner_list
    /\ ExtractReturn(inner_list)
    /\ UNCHANGED <<heading, table, nrows, row_idx, inner_list, eraised, qualified>>
    /\ extFrame

\* Lines 81-86.
ExtractExcept ==
    /\ epc = "except"
    /\ ExtractReturn(homework_list)
    /\ UNCHANGED <<heading, table, nrows, row_idx, inner_list, homework_list,
                   eraised, qualified>>
    /\ extFrame

ExtractNext ==
    \/ ExtractStart
    \/ FindDateHeading
    \/ FindDateTable
    \/ TableRows
    \/ ProcessRow
    \/ TableDone
    \/ ExtractExcept

ExtractInit ==
    /\ sections \in HomeworkPages
    /\ etarget \in Days
    /\ epc = "start"
    /\ heading = 0
    /\ table = 0
    /\ nrows = 0
    /\ row_idx = 0
    /\ inner_list = <<>>
    /\ homework_list = <<>>
    /\ eret = [kind |-> "none"]
    /\ eraised = "no"
    /\ qualified = 0
    /\ located = "none"
    /\ PagIdle /\ LoginIdle /\ FnIdle /\ ScrIdle /\ AuthIdle

SpecExtract == ExtractInit /\ [][ExtractNext]_vars

(***************************************************************************)
(* WebtopScraper.get_today_homework                                        *)
(***************************************************************************)
\* bool(s) for an Optional[str]
Truthy(s) == ~s.isNone /\ s.chars # <<>>

CredentialsMissingBoth(user, pass) == ~Truthy(user) /\ ~Truthy(pass)

\* Lines 47 and 73.
CredentialsMissing(user, pass) == ~Truthy(user) \/ ~Truthy(pass)

FailedNever(success) == FALSE

\* Lines 80 and 94.
Failed(success) == ~success

Credentials == {NoneStr, Str(<<>>), Str(<<"u">>)}

DateArgs ==
    {NoneStr, Str(<<>>), Str(<<" ">>),
     Str(<<"2", "1", "-", "0", "1", "-", "2", "0", "2", "4">>),
     Str(<<"3", "2", "-", "0", "1", "-", "2", "0", "2", "4">>),
     Str(<<"2", "1", ":", "0", "1", ":", "2", "0", "2", "4">>)}

\* The lists extract_homework may return.
HomeworkLists == {<<>>, <<"item1">>, <<"item1", "item2">>}

Call(op, outcome) == [op |-> op, outcome |-> outcome]

scrFrame == UNCHANGED <<username, password, date, pagVars, loginVars, fnVars,
                        extVars, authVars>>

\* get_today_homework raises `error`.
ScraperRaise(error) == spc' = "done" /\ sret' = [kind |-> "raised", error |-> error]

\* Lines 47-57: the credentials check and the target date.
CheckInputs ==
    /\ spc = "start"
    /\ IF CredentialsMissing(username, password)
       THEN ScraperRaise("credentials") /\ UNCHANGED target_date
       ELSE IF Truthy(date)
            THEN IF parse_date(date) = ValueError
                 THEN ScraperRaise("date") /\ UNCHANGED target_date
                 ELSE /\ target_date' = parse_date(date)
                      /\ spc' = "launch"
                      /\ UNCHANGED sret
            ELSE /\ target_date' = [kind |-> "now"]
                 /\ spc' = "launch"
                 /\ UNCHANGED sret
    /\ UNCHANGED <<browser, context, shomework, calls>>
    /\ scrFrame

\* Line 65.
LaunchBrowser ==
    /\ spc = "launch"
    /\ \/ /\ calls' = Append(calls, Call("launch", "raised"))
          /\ spc' = "except"
          /\ UNCHANGED browser
       \/ /\ calls' = Append(calls, Call("launch", "ok"))
          /\ browser' = TRUE
          /\ spc' = "context"
    /\ UNCHANGED <<context, target_date, shomework, sret>>
    /\ scrFrame

\* Line 67.
CreateContext ==
    /\ spc = "context"
    /\ \/ /\ calls' = Append(calls, Call("create_context", "raised"))
          /\ spc' = "except"
          /\ UNCHANGED context
       \/ /\ calls' = Append(calls, Call("create_context", "ok"))
          /\ context' = TRUE
          /\ spc' = "page"
    /\ UNCHANGED <<browser, target_date, shomework, sret>>
    /\ scrFrame

\* Line 68.
CreatePage ==
    /\ spc = "page"
    /\ \E outcome \in {"ok", "raised"} :
          /\ calls' = Append(calls, Call("create_page", outcome))
          /\ spc' = IF outcome = "ok" THEN "login" ELSE "except"
    /\ UNCHANGED <<browser, context, target_date, shomework, sret>>
    /\ scrFrame

\* Lines 73-89: the second credentials check, login, and the raise when
\* login returned False.
Login ==
    /\ spc = "login"
    /\ IF CredentialsMissing(username, password)
       THEN spc' = "except" /\ UNCHANGED calls
       ELSE \E login_success \in BOOLEAN :
               /\ calls' = Append(calls, Call("login", login_success))
               /\ spc' = IF Failed(login_success) THEN "except" ELSE "navigate"
    /\ UNCHANGED <<browser, context, target_date, shomework, sret>>
    /\ scrFrame

\* Lines 93-95.
NavigateToHomework ==
    /\ spc = "navigate"
    /\ \E nav_success \in BOOLEAN :
          /\ calls' = Append(calls, Call("navigate_to_homework", nav_success))
          /\ spc' = IF Failed(nav_success) THEN "except" ELSE "extract"
    /\ UNCHANGED <<browser, context, target_date, shomework, sret>>
    /\ scrFrame

\* Line 99.
ExtractHomework ==
    /\ spc = "extract"
    /\ \E list \in HomeworkLists :
          /\ calls' = Append(calls, Call("extract_homework", list))
          /\ shomework' = list
    /\ spc' = "close"
    /\ UNCHANGED <<browser, context, target_date, sret>>
    /\ scrFrame

\* Lines 102-106: close the context, close the browser, return.
CloseAndReturn ==
    /\ spc = "close"
    /\ \/ /\ calls' = Append(calls, Call("context.close", "raised"))
          /\ spc' = "except"
          /\ UNCHANGED sret
       \/ /\ calls' = calls \o <<Call("context.close", "ok"),
                                 Call("browser.close", "raised")>>
          /\ spc' = "except"
          /\ UNCHANGED sret
       \/ /\ calls' = calls \o <<Call("context.close", "ok"),
                                 Call("browser.close", "ok")>>
          /\ spc' = "done"
          /\ sret' = [kind |-> "list", list |-> shomework]
    /\ UNCHANGED <<browser, context, target_date, shomework>>
    /\ scrFrame

\* The calls of lines 112-115, which stop at the first one that raises.
CleanupCalls(has_context, has_browser) ==
    LET context_calls ==
            IF has_context
            THEN {<<Call("context.close", "ok")>>, <<Call("context.close", "raised")>>}
            ELSE {<<>>}
        browser_calls ==
            IF has_browser
            THEN {<<Call("browser.close", "ok")>>, <<Call("browser.close", "raised")>>}
            ELSE {<<>>}
    IN  {c \o b : c \in context_calls, b \in browser_calls} \cup
        {c \in context_calls : c # <<>> /\ c[1].outcome = "raised"}

\* Lines 108-118: clean up, swallowing what the cleanup raises, and re-raise.
ScraperExcept ==
    /\ spc = "except"
    /\ \E cleanup \in CleanupCalls(context, browser) :
          /\ \A i \in DOMAIN cleanup :
                cleanup[i].outcome = "raised" => i = Len(cleanup)
          /\ calls' = calls \o cleanup
    /\ ScraperRaise("Exception")
    /\ UNCHANGED <<browser, context, target_date, shomework>>
    /\ scrFrame

ScraperNext ==
    \/ CheckInputs
    \/ LaunchBrowser
    \/ CreateContext
    \/ CreatePage
    \/ Login
    \/ NavigateToHomework
    \/ ExtractHomework
    \/ CloseAndReturn
    \/ ScraperExcept

ScraperInit ==
    /\ username \in Credentials
    /\ password \in Credentials
    /\ date \in DateArgs
    /\ spc = "start"
    /\ browser = FALSE
    /\ context = FALSE
    /\ target_date = [kind |-> "none"]
    /\ shomework = <<>>
    /\ sret = [kind |-> "none"]
    /\ calls = <<>>
    /\ PagIdle /\ LoginIdle /\ FnIdle /\ ExtIdle /\ AuthIdle

SpecScraper == ScraperInit /\ [][ScraperNext]_vars

\* The [role="tab"] elements and the candidate login buttons a page of the
\* model can hold.
MaxTabs == 2

MaxButtons == 2

(***************************************************************************)
(* WebtopAuth._select_username_password_tab                                *)
(*                                                                         *)
(* A text is the sequence of its words, and `a in b` is IsSubstring(a, b). *)
(***************************************************************************)
\* TextPatterns.USERNAME_PASSWORD_TAB
USERNAME_PASSWORD_TAB == <<"כניסה", "עם", "קוד", "משתמש", "וסיסמה">>

\* TextPatterns.MOBILE_TAB
MOBILE_TAB == <<"כניסה", "עם", "קוד", "חד", "פעמי", "לנייד">>

\* Selectors.USERNAME_PASSWORD_TAB_TEXT and Selectors.MOBILE_TAB_EXCLUDE_TEXT,
\* the two texts of Selectors.TAB_SELECTOR
USERNAME_PASSWORD_TAB_TEXT == <<"קוד", "משתמש", "וסיסמה">>

MOBILE_TAB_EXCLUDE_TEXT == <<"חד", "פעמי">>

\* TextPatterns.PASSWORD_LABEL
PASSWORD_LABEL == <<"סיסמה">>

\* The texts a tab of the page can have: the two tabs of the portal, a tab
\* naming both ways to log in, two other wordings, no text.
TabTexts ==
    {USERNAME_PASSWORD_TAB, MOBILE_TAB, USERNAME_PASSWORD_TAB \o MOBILE_TAB,
     USERNAME_PASSWORD_TAB_TEXT, USERNAME_PASSWORD_TAB \o MOBILE_TAB_EXCLUDE_TEXT,
     <<>>}

\* The aria-label of the visible password field: none when no password field
\* is visible.
PasswordLabels == {<<>>, PASSWORD_LABEL, PASSWORD_LABEL \o MOBILE_TAB}

\* The [role="tab"] elements of the page, in document order.
TabLists(n) ==
    UNION {[1..k -> [text : TabTexts, selected : BOOLEAN]] : k \in 0..n}

MoeLoginPages ==
    [username_visible : BOOLEAN, tabs : TabLists(MaxTabs),
     password_label : PasswordLabels]

\* Lines 163, 193 and 208: the test of a tab's text.
IsCorrectTab(tab_text) ==
    /\ tab_text # <<>>
    /\ IsSubstring(USERNAME_PASSWORD_TAB, tab_text)
    /\ ~IsSubstring(MOBILE_TAB, tab_text)

\* Selectors.TAB_SELECTOR
MatchesTabSelector(tab_text) ==
    /\ IsSubstring(USERNAME_PASSWORD_TAB_TEXT, tab_text)
    /\ ~IsSubstring(MOBILE_TAB_EXCLUDE_TEXT, tab_text)

\* The three signals of _is_tab_already_selected, as the page has them.
\* Lines 150-154.
UsernameFieldVisible(page) == page.username_visible

\* Lines 160-168.
CorrectTabMarkedSelected(page) ==
    \E i \in DOMAIN page.tabs :
        IsCorrectTab(page.tabs[i].text) /\ page.tabs[i].selected

\* Lines 174-180.
PasswordFieldLabelled(page) ==
    /\ page.password_label # <<>>
    /\ IsSubstring(PASSWORD_LABEL, page.password_label)
    /\ ~IsSubstring(MOBILE_TAB, page.password_label)

Signal(k, page) ==
    IF k = 1 THEN UsernameFieldVisible(page)
    ELSE IF k = 2 THEN CorrectTabMarkedSelected(page)
    ELSE PasswordFieldLabelled(page)

\* Lines 146-184: the number of the first method that sees its signal, 0
\* when none does.  A method in which a driver call raises sees nothing
\* (ok[k] says method k ran without that).
FirstSignalByField(page, ok) == IF ok[1] /\ Signal(1, page) THEN 1 ELSE 0

_is_tab_already_selected(page, ok) ==
    FirstIndex({k \in 1..3 : ok[k] /\ Signal(k, page)})

\* The tab each method of _click_correct_tab goes for, 0 when it has none.
\* Lines 190-193: the first tab with the right text.
TabByText(page) ==
    FirstIndex({i \in DOMAIN page.tabs : IsCorrectTab(page.tabs[i].text)})

\* Lines 205-208: the tab whose name is exactly the text; the locator is
\* strict, so wait_for raises when several tabs have it, and times out when
\* none has.
TabByRole(page) ==
    LET named == {i \in DOMAIN page.tabs : page.tabs[i].text = USERNAME_PASSWORD_TAB}
    IN  IF Cardinality(named) = 1 /\ \A i \in named : IsCorrectTab(page.tabs[i].text)
        THEN FirstIndex(named) ELSE 0

\* Lines 219-220: the first tab the selector matches.
TabBySelector(page) ==
    FirstIndex({i \in DOMAIN page.tabs : MatchesTabSelector(page.tabs[i].text)})

TabOfMethod(k, page) ==
    IF k = 1 THEN TabByText(page)
    ELSE IF k = 2 THEN TabByRole(page)
    ELSE TabBySelector(page)

tabFrame == UNCHANGED <<mpage, pagVars, loginVars, fnVars, extVars, scrVars, buttonVars>>

\* Lines 133-139.
CheckAlreadySelected ==
    /\ tpc = "check"
    /\ \E ok \in [1..3 -> BOOLEAN] :
         /\ reads' = ok
         /\ already' = _is_tab_already_selected(mpage, ok)
         /\ IF already' # 0
            THEN tpc' = "done" /\ tret' = "None"
            ELSE tpc' = "method" /\ UNCHANGED tret
    /\ UNCHANGED <<method, tabCalls>>
    /\ tabFrame

\* One method of _click_correct_tab (lines 189-201, 204-215, 218-229): look
\* the tab up, wait for it, click it.  A driver call that raises ends the
\* method; a click() call that returns ends _click_correct_tab with True.
ClickCorrectTab ==
    /\ tpc = "method"
    /\ method <= 3
    /\ LET tab == TabOfMethod(method, mpage)
       IN  \/ /\ tab # 0               \* click() returned
              /\ tabCalls' = Append(tabCalls, [tab |-> tab, method |-> method,
                                               returned |-> TRUE])
              /\ tpc' = "done"
              /\ tret' = "True"
              /\ UNCHANGED method
           \/ /\ tab # 0               \* click() raised
              /\ tabCalls' = Append(tabCalls, [tab |-> tab, method |-> method,
                                               returned |-> FALSE])
              /\ method' = method + 1
              /\ UNCHANGED <<tpc, tret>>
           \/ /\ method' = method + 1  \* no tab, or a lookup or wait raised
              /\ UNCHANGED <<tpc, tret, tabCalls>>
    /\ UNCHANGED <<reads, already>>
    /\ tabFrame

\* Lines 231 and 143-144: no method clicked a tab.
NoTabClicked ==
    /\ tpc = "method"
    /\ method = 4
    /\ tpc' = "done"
    /\ tret' = "False"
    /\ UNCHANGED <<method, tabCalls, reads, already>>
    /\ tabFrame

TabNext ==
    \/ CheckAlreadySelected
    \/ ClickCorrectTab
    \/ NoTabClicked

TabInit ==
    /\ mpage \in MoeLoginPages
    /\ tpc = "check"
    /\ reads = [k \in 1..3 |-> FALSE]
    /\ already = 0
    /\ method = 1
    /\ tabCalls = <<>>
    /\ tret = "none"
    /\ ButtonIdle /\ PagIdle /\ LoginIdle /\ FnIdle /\ ExtIdle /\ ScrIdle

SpecTab == TabInit /\ [][TabNext]_vars


(***************************************************************************)
(* WebtopAuth._click_moe_button, _click_login_button and                   *)
(* _find_login_button                                                      *)
(***************************************************************************)
BUTTON_ENABLE_MAX_WAIT == 10

\* A <button> whose text contains the login text: whether it has
\* type="submit", its role attribute, the role attribute of its parent,
\* whether some ancestor has role="tablist", and whether it is the first
\* submit button of a form.
LoginButtons ==
    {b \in [submit : BOOLEAN, role : {"None", "tab"},
            parent_role : {"None", "tablist", "tabpanel"},
            in_tablist : BOOLEAN, in_form : BOOLEAN] :
        /\ b.parent_role = "tablist" => b.in_tablist
        /\ b.in_form => b.submit}

\* The buttons of the page, in document order.
LoginPages(n) == UNION {[1..k -> LoginButtons] : k \in 0..n}

\* How a method of _find_login_button runs: without a driver error, with an
\* error in its inner try block (lines 313-321 and 331-341), or with an
\* error elsewhere, which ends the method.
MethodRuns == {"ok", "inner", "abort"}

\* One run for each of the four methods; only the first two have an inner
\* try block.
FindRuns == {runs \in [1..4 -> MethodRuns] : runs[3] # "inner" /\ runs[4] # "inner"}

\* Lines 307-321: submit buttons.
SubmitButton(page, run) ==
    IF run = "abort" THEN 0
    ELSE FirstIndex({i \in DOMAIN page :
            /\ page[i].submit
            /\ page[i].role # "tab"
            /\ \/ run = "inner"
               \/ page[i].parent_role \notin {"tablist", "tabpanel"}})

\* Lines 327-341: buttons with the login text.
TextButton(page, run) ==
    IF run = "abort" THEN 0
    ELSE FirstIndex({i \in DOMAIN page :
            /\ page[i].role # "tab"
            /\ IF run = "inner" THEN page[i].submit ELSE ~page[i].in_tablist})

\* Lines 347-352: elements with the role of a button and the login name.
RoleButton(page, run) ==
    IF run # "ok" THEN 0
    ELSE FirstIndex({i \in DOMAIN page : page[i].role # "tab"})

\* Lines 358-365: the first submit button of a form.
FormButton(page, run) ==
    IF run # "ok" THEN 0
    ELSE FirstIndex({i \in DOMAIN page : page[i].in_form /\ page[i].submit})

\* The button found, and the method that found it; button 0: line 369 raises.
FirstFound(found) ==
    IF \E k \in DOMAIN found : found[k] # 0
    THEN LET k == SetMin({j \in DOMAIN found : found[j] # 0})
         IN  [button |-> found[k], method |-> k]
    ELSE [button |-> 0, method |-> 0]

_find_login_button(page, runs) ==
    FirstFound(<<SubmitButton(page, runs[1]), TextButton(page, runs[2]),
                 RoleButton(page, runs[3]), FormButton(page, runs[4])>>)

\* What a poll reads: the disabled attribute (None when absent) and
\* aria-disabled.
AttributeReads == [disabled : {"None", ""}, aria_disabled : {"None", "true", "false"}]

EnabledIgnoringAria(is_disabled, aria_disabled) == is_disabled = "None"

\* Lines 108 and 293.
Enabled(is_disabled, aria_disabled) == is_disabled = "None" /\ aria_disabled # "true"

buttonFrame == UNCHANGED <<control, pagVars, loginVars, fnVars, extVars, scrVars, tabVars>>

\* An exception leaves the method (login's handler catches it).
ButtonRaise == bpc' = "done" /\ bret' = "raised"

\* Lines 101-102 of _click_moe_button: locate the control and wait for it to
\* be visible.  Line 287 of _click_login_button: _find_login_button.
FindControl ==
    /\ bpc = "find"
    /\ \/ /\ control = "moe"
          /\ \/ ButtonRaise /\ UNCHANGED element
             \/ /\ element' = [kind |-> "moe"]
                /\ bpc' = "poll"
                /\ UNCHANGED bret
          /\ UNCHANGED foundBy
       \/ /\ control = "login"
          /\ \E runs \in FindRuns, page \in LoginPages(MaxButtons) :
               LET found == _find_login_button(page, runs)
               IN  /\ foundBy' = found.method
                   /\ IF found.button = 0
                      THEN ButtonRaise /\ UNCHANGED element
                      ELSE /\ element' = [kind |-> "button",
                                          button |-> page[found.button]]
                           /\ bpc' = "poll"
                           /\ UNCHANGED bret
    /\ UNCHANGED <<polls, lastRead, bcalls>>
    /\ buttonFrame

\* Lines 105-110 and 290-295: one iteration of the wait for the control to
\* be enabled.
PollEnabled ==
    /\ bpc = "poll"
    /\ polls < BUTTON_ENABLE_MAX_WAIT
    /\ \/ ButtonRaise /\ UNCHANGED <<polls, lastRead>>
       \/ \E read \in AttributeReads :
            /\ lastRead' = read
            /\ IF Enabled(read.disabled, read.aria_disabled)
               THEN bpc' = "click" /\ UNCHANGED polls
               ELSE polls' = polls + 1 /\ UNCHANGED bpc
            /\ UNCHANGED bret
    /\ UNCHANGED <<element, foundBy, bcalls>>
    /\ buttonFrame

\* The loop ran out (the else branch of lines 296-297): go on to the click.
PollExhausted ==
    /\ bpc = "poll"
    /\ polls = BUTTON_ENABLE_MAX_WAIT
    /\ bpc' = "click"
    /\ UNCHANGED <<element, foundBy, polls, lastRead, bcalls, bret>>
    /\ buttonFrame

\* Lines 111 and 299-301: the click() call; _click_login_button reads the
\* control's text first.
ClickControl ==
    /\ bpc = "click"
    /\ \/ /\ control = "login"     \* text_content raised
          /\ ButtonRaise
          /\ UNCHANGED bcalls
       \/ /\ bcalls' = bcalls + 1
          /\ \/ ButtonRaise
             \/ bpc' = "done" /\ bret' = "None"
    /\ UNCHANGED <<element, foundBy, polls, lastRead>>
    /\ buttonFrame

ButtonNext ==
    \/ FindControl
    \/ PollEnabled
    \/ PollExhausted
    \/ ClickControl

ButtonInit ==
    /\ control \in {"moe", "login"}
    /\ bpc = "find"
    /\ element = [kind |-> "none"]
    /\ foundBy = 0
    /\ polls = 0
    /\ lastRead = [disabled |-> "unread", aria_disabled |-> "unread"]
    /\ bcalls = 0
    /\ bret = "none"
    /\ TabIdle /\ PagIdle /\ LoginIdle /\ FnIdle /\ ExtIdle /\ ScrIdle

SpecButton == ButtonInit /\ [][ButtonNext]_vars

(***************************************************************************)
(* WebtopPagination.find_date_on_page and get_dates_on_page, applied to    *)
(* the headings of one page.                                               *)
(***************************************************************************)
\* The headings a page of the model can hold.
MaxHeadings == 2

\* What text_content gives for a heading: None, or a text around dates
\* written as DD/MM/YYYY, some of them no calendar dates.
HeadingTexts ==
    LET d1 == DisplayOfDay(1)
        d2 == DisplayOfDay(2)
        feb31 == <<"3", "1", "/", "0", "2", "/", "2", "0", "2", "4">>
        month13 == <<"0", "0", "/", "1", "3", "/", "2", "0", "2", "4">>
    IN  {NoneStr, Str(<<>>), Str(<<"x">>),
         Str(<<"x", " ">> \o d1), Str(<<"x", " ">> \o d2), Str(d2 \o <<" ", "x">>),
         Str(<<"x", " ">> \o Tail(d1)),
         Str(<<"x", " ">> \o feb31), Str(month13),
         Str(<<"x", " ">> \o feb31 \o <<" ">> \o d1),
         Str(d2 \o <<" ">> \o d1)}

HeadingLists(n) == UNION {[1..k -> HeadingTexts] : k \in 0..n}

\* The driver calls that raise in one run: a call outside the two inner try
\* blocks and before the loop (lines 35-43 and 56, 88-92 and 105), the wait
\* for the headings (47 and 96), the scroll of a heading (60 and 109), and
\* text_content of heading `text` (65 and 114; 0: of none).
HeadingFaults(n) ==
    [outer : BOOLEAN, wait : BOOLEAN, scroll : BOOLEAN, text : 0..n]

\* Line 66: the test of a heading's text.
HeadingEquals(heading_text, target_date_str) ==
    ~heading_text.isNone /\ heading_text.chars = target_date_str

HeadingMatches(heading_text, target_date_str) ==
    /\ ~heading_text.isNone
    /\ heading_text.chars # <<>>
    /\ IsSubstring(target_date_str, heading_text.chars)

\* The headings the loop reads before it ends: all of them, or those before
\* the one whose text_content raises.
HeadingsRead(headings, faults) ==
    IF faults.outer THEN {}
    ELSE {i \in DOMAIN headings : faults.text = 0 \/ i < faults.text}

\* find_date_on_page(page, target_date_str): the value returned.
find_date_on_page(headings, target_date_str, faults) ==
    IF faults.outer THEN FALSE
    ELSE LET m == FirstIndex({i \in DOMAIN headings :
                        HeadingMatches(headings[i], target_date_str)})
         IN  m # 0 /\ m \in HeadingsRead(headings, faults)

\* The driver methods find_date_on_page calls in one run.
FindDateCalls(headings, faults) ==
    IF faults.outer THEN {"wait_for_load_state", "evaluate", "wait_for_timeout"}
    ELSE {"wait_for_load_state", "evaluate", "wait_for_timeout",
          "wait_for_selector", "locator", "all"}
         \cup (IF headings = <<>> THEN {}
               ELSE {"scroll_into_view_if_needed", "text_content"})

\* re.search(Selectors.DATE_REGEX_PATTERN, s): the offset of the first match
\* of (\d{2})/(\d{2})/(\d{4}), 0 when there is none.
MatchesAt(s, i) ==
    /\ i + 9 <= Len(s)
    /\ \A j \in {0, 1, 3, 4, 6, 7, 8, 9} : IsDigit(s[i + j])
    /\ s[i + 2] = "/"
    /\ s[i + 5] = "/"

DateSearch(s) == FirstIndex({i \in DOMAIN s : MatchesAt(s, i)})

\* datetime(year, month, day) raises ValueError for these.
AnyDayUpTo31(y, m, d) == y >= 1 /\ m \in 1..12 /\ d \in 1..31

ValidDate(y, m, d) == y >= 1 /\ m \in 1..12 /\ d >= 1 /\ d <= DaysInMonth(y, m)

\* Lines 115-125: the date of one heading, None when it has none.
DateOfHeading(heading_text) ==
    IF heading_text.isNone \/ heading_text.chars = <<>> THEN None
    ELSE LET s == heading_text.chars
             i == DateSearch(s)
         IN  IF i = 0 THEN None
             ELSE LET day == IntOf(SubSeq(s, i, i + 1))
                      month == IntOf(SubSeq(s, i + 3, i + 4))
                      year == IntOf(SubSeq(s, i + 6, i + 9))
                  IN  IF ValidDate(year, month, day) THEN Date(year, month, day)
                      ELSE None

\* The order of datetime values.
DateKey(dt) == dt.year * 10000 + dt.month * 100 + dt.day

\* sorted(dates)
RECURSIVE InsertDate(_, _)
InsertDate(dt, sorted) ==
    IF sorted = <<>> THEN <<dt>>
    ELSE IF DateKey(dt) < DateKey(Head(sorted)) THEN <<dt>> \o sorted
    ELSE <<Head(sorted)>> \o InsertDate(dt, Tail(sorted))

RECURSIVE SortedDates(_)
SortedDates(dates) ==
    IF dates = <<>> THEN <<>>
    ELSE InsertDate(dates[Len(dates)], SortedDates(SubSeq(dates, 1, Len(dates) - 1)))

\* The list `dates` after the loop read headings 1..n.
RECURSIVE DatesAppended(_, _)
DatesAppended(headings, n) ==
    IF n = 0 THEN <<>>
    ELSE LET dt == DateOfHeading(headings[n])
         IN  DatesAppended(headings, n - 1) \o (IF dt = None THEN <<>> ELSE <<dt>>)

\* get_dates_on_page(page)
get_dates_on_page(headings, faults) ==
    SortedDates(DatesAppended(headings, Cardinality(HeadingsRead(headings, faults))))

HeadingInputs(n) ==
    {[kind |-> "find_date", headings |-> h, target_date_str |-> DisplayOfDay(t),
      faults |-> f] :
        h \in HeadingLists(n), t \in Days,
        f \in HeadingFaults(n)}
    \cup
    {[kind |-> "get_dates", headings |-> h, faults |-> f] :
        h \in HeadingLists(n), f \in HeadingFaults(n)}

HeadingsInit ==
    /\ arg \in {a \in HeadingInputs(MaxHeadings) : a.faults.text <= Len(a.headings)}
    /\ result = [kind |-> "pending"]
    /\ ExtIdle /\ ScrIdle /\ PagIdle /\ LoginIdle /\ AuthIdle

ApplyFindDateOnPage ==
    /\ arg.kind = "find_date"
    /\ result.kind = "pending"
    /\ result' = [kind |-> "bool", raised |-> FALSE,
                  value |-> find_date_on_page(arg.headings, arg.target_date_str,
                                              arg.faults),
                  calls |-> FindDateCalls(arg.headings, arg.faults)]
    /\ UNCHANGED <<arg, pagVars, loginVars, extVars, scrVars, authVars>>

ApplyGetDatesOnPage ==
    /\ arg.kind = "get_dates"
    /\ result.kind = "pending"
    /\ result' = [kind |-> "dates", raised |-> FALSE,
                  dates |-> get_dates_on_page(arg.headings, arg.faults)]
    /\ UNCHANGED <<arg, pagVars, loginVars, extVars, scrVars, authVars>>

HeadingsNext == ApplyFindDateOnPage \/ ApplyGetDatesOnPage

SpecHeadings == HeadingsInit /\ [][HeadingsNext]_vars

(***************************************************************************)
(* WebtopPagination._find_navigation_button, applied to one page.          *)
(*                                                                         *)
(* The list of selectors of a direction is fixed (19 forward, 23           *)
(* backward); the loop treats every selector alike, and the model runs it  *)
(* over the first MaxSelectors of them.                                    *)
(***************************************************************************)
MaxSelectors == 2

NoMatch == [count |-> 0]

\* The first match of a selector: whether it is visible, its disabled
\* attribute (None when absent, "" for a bare `disabled`), its aria-disabled
\* attribute and its class attribute, a sequence of class names.
NavElements ==
    [count : {1}, visible : BOOLEAN, disabled : {"None", "", "true"},
     aria_disabled : {"None", "true"},
     class : {<<"link-text">>, <<"link-text", "empty">>}]

\* What each selector of the requested direction matches first.
NavPages(n) == [1..n -> NavElements \cup {NoMatch}]

\* The driver call that raises in one run: none (at = 0), the read of the
\* class attribute of the match of selector `at` (lines 318-326), or another
\* call made for that selector (lines 304-315).
NavFaults(n) == [kind : {"class", "other"}, at : 0..n]

\* Python's truth value of an attribute value.
TruthyAttr(value) == value \notin {"None", ""}

\* Line 322.
HasEmptyClass(class_attr) == IsSubstring(<<"empty">>, class_attr)

\* Line 328; class_read says that line 320 returned.
Usable(el, class_read) ==
    /\ el.visible
    /\ ~TruthyAttr(el.disabled)
    /\ el.aria_disabled # "true"
    /\ ~(class_read /\ HasEmptyClass(el.class))

\* Lines 303-341: the selector whose first match is returned, 0 for None.
_find_navigation_button(matches, faults) ==
    FirstIndex({i \in DOMAIN matches :
        /\ matches[i].count > 0
        /\ ~(faults.at = i /\ faults.kind = "other")
        /\ Usable(matches[i], ~(faults.at = i /\ faults.kind = "class"))})

NavInputs(n) ==
    {[kind |-> "find_button", direction |-> d, matches |-> p, faults |-> f] :
        d \in Directions, p \in NavPages(n), f \in NavFaults(n)}

NavInit ==
    /\ arg \in {a \in NavInputs(MaxSelectors) :
                    a.faults.at = 0 => a.faults.kind = "other"}
    /\ result = [kind |-> "pending"]
    /\ ExtIdle /\ ScrIdle /\ PagIdle /\ LoginIdle /\ AuthIdle

ApplyFindNavigationButton ==
    /\ arg.kind = "find_button"
    /\ result.kind = "pending"
    /\ result' = [kind |-> "locator",
                  selector |-> _find_navigation_button(arg.matches, arg.faults)]
    /\ UNCHANGED <<arg, pagVars, loginVars, extVars, scrVars, authVars>>

SpecNavButton == NavInit /\ [][ApplyFindNavigationButton]_vars

(***************************************************************************)
(* WebtopExtractor._extract_cell_text, applied to one cell.                *)
(***************************************************************************)
\* The pieces a cell text of the model is made of.
MaxPieces == 4

\* The two prefixes of line 330.
LESSON_TOPIC_PREFIX == <<"נ", "ו", "ש", "א", " ", "ש", "י", "ע", "ו", "ר", ":">>

HOMEWORK_PREFIX == <<"ש", "י", "ע", "ו", "ר", "י", " ", "ב", "י", "ת", ":">>

\* The character U+0060, the grave accent, which a TLA+ string cannot hold.
GRAVE == "grave"

\* The placeholders of line 332.
CellPlaceholders == {<<"-", GRAVE>>, <<"-">>, <<GRAVE>>, <<"-", "-">>}

\* s.split(): the maximal runs of characters that are not whitespace.
RECURSIVE SplitWords(_)
SplitWords(s) ==
    LET t == LStrip(s)
    IN  IF t = <<>> THEN <<>>
        ELSE LET ends == {i \in DOMAIN t : IsSpace(t[i])}
                 n == IF ends = {} THEN Len(t) ELSE SetMin(ends) - 1
             IN  <<SubSeq(t, 1, n)>> \o SplitWords(SubSeq(t, n + 1, Len(t)))

\* " ".join(words)
RECURSIVE JoinWords(_)
JoinWords(words) ==
    IF words = <<>> THEN <<>>
    ELSE IF Len(words) = 1 THEN words[1]
    ELSE words[1] \o <<" ">> \o JoinWords(Tail(words))

\* s.replace(old, ""): the occurrences of old are removed from left to
\* right, in one pass.
RECURSIVE Remove(_, _)
Remove(s, old) ==
    IF Len(s) < Len(old) THEN s
    ELSE IF SubSeq(s, 1, Len(old)) = old
         THEN Remove(SubSeq(s, Len(old) + 1, Len(s)), old)
    ELSE <<Head(s)>> \o Remove(Tail(s), old)

\* Lines 328-333.
Clean(text) ==
    LET joined == JoinWords(SplitWords(text))
        stripped == Strip(Remove(Remove(joined, LESSON_TOPIC_PREFIX), HOMEWORK_PREFIX))
    IN  IF stripped \in CellPlaceholders THEN <<>> ELSE stripped

\* _extract_cell_text(cell): cell.text is what text_content gives, and
\* cell.raises says that the call raises.
_extract_cell_text(cell) ==
    IF cell.raises THEN <<>>
    ELSE IF cell.text.isNone \/ cell.text.chars = <<>> THEN <<>>
    ELSE Clean(cell.text.chars)

CellPieces ==
    {<<"a">>, <<" ">>, <<"\n">>, <<" ", "b">>, <<"-">>, <<GRAVE>>,
     LESSON_TOPIC_PREFIX, HOMEWORK_PREFIX}

RECURSIVE PiecedTexts(_)
PiecedTexts(n) ==
    IF n = 0 THEN {<<>>}
    ELSE LET shorter == PiecedTexts(n - 1)
         IN  shorter \cup {t \o p : t \in shorter, p \in CellPieces}

CellInputs(n) ==
    {[kind |-> "cell_text", cell |-> [text |-> Str(t), raises |-> r]] :
        t \in PiecedTexts(n), r \in BOOLEAN}
    \cup {[kind |-> "cell_text", cell |-> [text |-> NoneStr, raises |-> FALSE]]}

CellTextInit ==
    /\ arg \in CellInputs(MaxPieces)
    /\ result = [kind |-> "pending"]
    /\ ExtIdle /\ ScrIdle /\ PagIdle /\ LoginIdle /\ AuthIdle

ApplyExtractCellText ==
    /\ arg.kind = "cell_text"
    /\ result.kind = "pending"
    /\ result' = [kind |-> "str", chars |-> _extract_cell_text(arg.cell)]
    /\ UNCHANGED <<arg, pagVars, loginVars, extVars, scrVars, authVars>>

SpecCellText == CellTextInit /\ [][ApplyExtractCellText]_vars

(***************************************************************************)
(* _extract_attached_files (extractor.py).  A file cell is the list of its *)
(* anchors and the list of its images, in document order.  An element is   *)
(* its defining attribute (href or src), its caption (text_content or      *)
(* alt) and whether reading it raises; listing the anchors or the images   *)
(* may raise as well.                                                      *)
(***************************************************************************)
MaxFiles == 2

FileElements ==
    {[attr |-> NoneStr, caption |-> Str(<<" ", "t">>), raises |-> FALSE],
     [attr |-> Str(<<>>), caption |-> NoneStr, raises |-> FALSE],
     [attr |-> Str(<<"f">>), caption |-> Str(<<" ", "t">>), raises |-> FALSE],
     [attr |-> Str(<<"f">>), caption |-> NoneStr, raises |-> FALSE],
     [attr |-> Str(<<"g">>), caption |-> Str(<<"t", " ">>), raises |-> FALSE],
     [attr |-> Str(<<"g">>), caption |-> NoneStr, raises |-> TRUE]}

FileLists(n) == UNION {[1..k -> FileElements] : k \in 0..n}

\* Which of the two listings raises, if any.
ListingFaults == {"none", "links", "images"}

FileCells(n) ==
    [links : FileLists(n), images : FileLists(n), listing : ListingFaults]

\* if href: / if src: read as "the attribute is not None".
HasAttribute(v) == ~v.isNone

\* if href: / if src:
NonEmptyAttribute(v) == Truthy(v)

\* text_content.strip() if text_content else ""
Caption(v) == IF Truthy(v) THEN Strip(v.chars) ELSE <<>>

\* The body of the first loop for one anchor: the entry it appends, if any.
LinkEntries(link) ==
    IF link.raises THEN <<>>
    ELSE IF NonEmptyAttribute(link.attr)
         THEN <<[type |-> "link", href |-> link.attr.chars, text |-> Caption(link.caption)]>>
    ELSE <<>>

\* The body of the second loop for one image.
ImageEntries(img) ==
    IF img.raises THEN <<>>
    ELSE IF NonEmptyAttribute(img.attr)
         THEN <<[type |-> "image", src |-> img.attr.chars, alt |-> Caption(img.caption)]>>
    ELSE <<>>

RECURSIVE LinkLoop(_)
LinkLoop(file_links) ==
    IF file_links = <<>> THEN <<>>
    ELSE LinkEntries(Head(file_links)) \o LinkLoop(Tail(file_links))

RECURSIVE ImageLoop(_)
ImageLoop(file_imgs) ==
    IF file_imgs = <<>> THEN <<>>
    ELSE ImageEntries(Head(file_imgs)) \o ImageLoop(Tail(file_imgs))

\* _extract_attached_files(file_cell): the outer try ends the call with what
\* was appended before a listing raised.
_extract_attached_files(file_cell) ==
    IF file_cell.listing = "links" THEN <<>>
    ELSE IF file_cell.listing = "images" THEN LinkLoop(file_cell.links)
    ELSE LinkLoop(file_cell.links) \o ImageLoop(file_cell.images)

FilesInit ==
    /\ arg \in {[kind |-> "files", file_cell |-> c] : c \in FileCells(MaxFiles)}
    /\ result = [kind |-> "pending"]
    /\ ExtIdle /\ ScrIdle /\ PagIdle /\ LoginIdle /\ AuthIdle

ApplyExtractAttachedFiles ==
    /\ arg.kind = "files"
    /\ result.kind = "pending"
    /\ result' = [kind |-> "files", files |-> _extract_attached_files(arg.file_cell)]
    /\ UNCHANGED <<arg, pagVars, loginVars, extVars, scrVars, authVars>>

SpecAttachedFiles == FilesInit /\ [][ApplyExtractAttachedFiles]_vars

(***************************************************************************)
(* _find_date_table (extractor.py) as a run of its four methods: which     *)
(* methods were tried, which one returned, and the table it returned.      *)
(***************************************************************************)
\* The methods in the order of lines 148, 158, 185 and 222, with method 3
\* moved to the front.
ParentCardFirst == <<3, 1, 2, 4>>

\* The methods in the order of lines 148, 158, 185 and 222.
TableMethods == <<1, 2, 3, 4>>

\* What method k finds on the page when no driver call of it raises.
TableOfMethod(k, page, target_date_str) ==
    IF k = 3 THEN TableByParentCard(page, target_date_str)
    ELSE TableByAriaLabel(page, target_date_str)

\* The try blocks one after the other: a method that finds a table returns
\* it, and a method that raises or finds nothing leaves the call with the
\* next one.
RECURSIVE RunTableMethods(_, _, _, _)
RunTableMethods(methods, page, target_date_str, ok) ==
    IF methods = <<>> THEN [table |-> 0, by |-> 0, tried |-> <<>>]
    ELSE LET k == Head(methods)
             found == IF ok[k] THEN TableOfMethod(k, page, target_date_str) ELSE 0
             rest == RunTableMethods(Tail(methods), page, target_date_str, ok)
         IN  IF found # 0 THEN [table |-> found, by |-> k, tried |-> <<k>>]
             ELSE [rest EXCEPT !.tried = <<k>> \o @]

FindTableCalls ==
    [kind : {"find_table"}, page : HomeworkPages, day : Days, ok : [1..4 -> BOOLEAN]]

FindTableInit ==
    /\ arg \in FindTableCalls
    /\ result = [kind |-> "pending"]
    /\ ExtIdle /\ ScrIdle /\ PagIdle /\ LoginIdle /\ AuthIdle

ApplyFindDateTable ==
    /\ arg.kind = "find_table"
    /\ result.kind = "pending"
    /\ result' = [kind |-> "table",
                  run |-> RunTableMethods(TableMethods, arg.page,
                                          DisplayOfDay(arg.day), arg.ok)]
    /\ UNCHANGED <<arg, pagVars, loginVars, extVars, scrVars, authVars>>

SpecFindTable == FindTableInit /\ [][ApplyFindDateTable]_vars

(***************************************************************************)
(* _extract_table_data (extractor.py) over the cells of the rows.  A row   *)
(* is the list of its cells: text cells ([text, raises], as read by        *)
(* _extract_cell_text), the subject cell in second place and, when the row *)
(* has a seventh cell, the file cell.                                      *)
(***************************************************************************)
\* The positions with teacher and status exchanged.
ColumnsTeacherStatusSwapped ==
    [hour |-> 1, subject |-> 2, teacher |-> 4, status |-> 3, lesson_topic |-> 5,
     homework |-> 6, attached_files |-> 7]

\* Lines 270-283: cells[0] .. cells[6] of the code are cells[1] .. cells[7]
\* here.
Columns ==
    [hour |-> 1, subject |-> 2, teacher |-> 3, status |-> 4, lesson_topic |-> 5,
     homework |-> 6, attached_files |-> 7]

TextCell(chars) == [text |-> Str(chars), raises |-> FALSE]

\* The file cell of a row: a link and an image, or an anchor without href.
FileCellOf(tag) ==
    IF tag = "p"
    THEN [links |-> <<[attr |-> Str(<<"f">>), caption |-> Str(<<" ", "t">>),
                       raises |-> FALSE]>>,
          images |-> <<[attr |-> Str(<<"g">>), caption |-> NoneStr,
                        raises |-> FALSE]>>,
          listing |-> "none"]
    ELSE [links |-> <<[attr |-> NoneStr, caption |-> Str(<<" ", "t">>),
                       raises |-> FALSE]>>,
          images |-> <<>>, listing |-> "none"]

\* The cells of a row: the tag tells the rows apart, and the texts of the
\* columns differ from each other.
CellsOf(ncells, tag, subject_cell, content) ==
    LET all == <<TextCell(<<"1", tag>>), subject_cell, TextCell(<<"c", " ", tag>>),
                 TextCell(<<"s", tag>>), TextCell(content[1]), TextCell(content[2]),
                 FileCellOf(tag)>>
    IN  SubSeq(all, 1, ncells)

RowContents ==
    {<<<<"t", " ", " ", "u">>, <<"h">>>>,
     <<EMPTY_LESSON_PLACEHOLDER, NO_HOMEWORK_PLACEHOLDER>>,
     <<<<"-">>, <<"h">>>>}

TableRowsOf ==
    {CellsOf(ncells, tag, subject_cell, content) :
        ncells \in {5, 6, 7}, tag \in {"p", "q"},
        subject_cell \in {c \in SubjectCells : c.button /\ ~c.raises},
        content \in RowContents}

Tables(n) == UNION {[1..k -> TableRowsOf] : k \in 0..n}

\* Lines 266-310 for one row: the record it appends, if any.
RowRecords(cells, target_date_str) ==
    IF Len(cells) >= 6
    THEN LET hour == _extract_cell_text(cells[Columns.hour])
             subject == _extract_subject(cells[Columns.subject])
             teacher == _extract_cell_text(cells[Columns.teacher])
             status == _extract_cell_text(cells[Columns.status])
             lesson_topic == _extract_cell_text(cells[Columns.lesson_topic])
             homework == _extract_cell_text(cells[Columns.homework])
             attached_files ==
                 IF Len(cells) > 6
                 THEN _extract_attached_files(cells[Columns.attached_files])
                 ELSE <<>>
             combined == _combine_content(lesson_topic, homework)
         IN  IF KeepRow(subject, combined)
             THEN <<[hour |-> hour, subject |-> subject, teacher |-> teacher,
                     lesson_topic |-> lesson_topic, homework |-> homework,
                     combined |-> combined, status |-> status,
                     attached_files |-> attached_files, date |-> target_date_str]>>
             ELSE <<>>
    ELSE <<>>

\* Lines 264-312: the loop over the rows.
RECURSIVE _extract_table_data(_, _)
_extract_table_data(rows, target_date_str) ==
    IF rows = <<>> THEN <<>>
    ELSE RowRecords(Head(rows), target_date_str)
             \o _extract_table_data(Tail(rows), target_date_str)

\* Line 261 is outside every try block of the function: when listing the
\* rows raises, the call raises.
TableDataInit ==
    /\ arg \in [kind : {"table_data"}, rows : Tables(MaxRows), day : Days,
                rows_raise : BOOLEAN]
    /\ result = [kind |-> "pending"]
    /\ ExtIdle /\ ScrIdle /\ PagIdle /\ LoginIdle /\ AuthIdle

ApplyExtractTableData ==
    /\ arg.kind = "table_data"
    /\ result.kind = "pending"
    /\ result' = IF arg.rows_raise THEN [kind |-> "raised"]
                 ELSE [kind |-> "records",
                       list |-> _extract_table_data(arg.rows, DisplayOfDay(arg.day))]
    /\ UNCHANGED <<arg, pagVars, loginVars, extVars, scrVars, authVars>>

SpecTableData == TableDataInit /\ [][ApplyExtractTableData]_vars

(***************************************************************************)
(* Claims about navigate_to_date_page.                                     *)
(***************************************************************************)
DateSet(dates) == {dates[i] : i \in DOMAIN dates}

\* C1: within one call no click attempt starts twice from the same page
\* identity with the same direction.
C1_NoPageTwiceInSameDirection == ~reattempted

\* C2: the loop counter never exceeds maxPages, at most one control is located
\* and clicked per loop iteration (a regular click and, when it raised, one
\* forced click of the same control), the call makes at most 2 * maxPages
\* click() calls, and a call that has not returned always has a next step.
C2_BoundedSearch ==
    /\ pages_checked <= MaxPages
    /\ iterFinds <= 1
    /\ iterClicks <= 2
    /\ (iterClicks > 0 => iterFinds = 1)
    /\ clicks <= 2 * pages_checked
    /\ clicks <= 2 * MaxPages
    /\ (~PagReturned => ENABLED PagNext)

\* C2's case: a call that used every iteration and every click it may use,
\* and returned False.
C2_Witness ==
    /\ ppc = "done"
    /\ pret = "False"
    /\ pages_checked = MaxPages
    /\ clicks = 2 * MaxPages

\* The direction lines 158-170 choose from the dates read on the first page.
FirstDirectionFollowsDatesRead ==
    initRead =>
        /\ (DateSet(initDates) # {} /\ \A d \in DateSet(initDates) : target < d)
               => initDirection = "backward"
        /\ (DateSet(initDates) # {} /\ \A d \in DateSet(initDates) : target > d)
               => initDirection = "forward"
        /\ DateSet(initDates) = {} => initDirection = "forward"

ReturnedFalseUntouched ==
    /\ ppc = "done"
    /\ pret = "False"
    /\ firstFindDir = "none"
    /\ clicks = 0
    /\ pageDates = dates0

\* C4 as stated: the target was not found on the first page and lies between
\* the earliest and the latest date the page shows.
C4_InRangeOfDatesShown ==
    (/\ initRead
     /\ \E d \in dates0 : d <= target
     /\ \E d \in dates0 : target <= d) => ReturnedFalseUntouched

\* C4 as amended: the target was not found on the first page and lies between
\* the earliest and the latest date read from it.
C4_InRangeOfDatesRead ==
    (/\ initRead
     /\ \E d \in DateSet(initDates) : d <= target
     /\ \E d \in DateSet(initDates) : target <= d) => ReturnedFalseUntouched

\* C4's case: the page shows a day before and a day after the target and not
\* the target, all its dates were read, and the call returned.
C4_Witness ==
    /\ initRead
    /\ target \notin dates0
    /\ DateSet(initDates) = dates0
    /\ \E d \in dates0 : d < target
    /\ \E d \in dates0 : target < d
    /\ ppc = "done"

(***************************************************************************)
(* Claims about the fallbacks and the direction changes of the search.     *)
(***************************************************************************)
\* C26: navigate_to_date_page always returns a value: a call that has ended
\* has returned True or False and has not raised to its caller.
C26_AlwaysReturnsValue == PagReturned => pret \in {"True", "False"}

\* The number of clicks of the first direction's control that lead from the
\* week the call starts on to the week of the target.
ClicksToTarget ==
    IF target >= world.start THEN target - world.start ELSE world.start - target

\* C27: on a portal of weeks, where every control between the first week and
\* the target's week is usable, a call in which no click and no wait failed
\* and whose target is 1 to maxPages clicks away returns True, whether the
\* weeks have a URL each or share one.
C27_ReachableDateIsFound ==
    (/\ ppc = "done"
     /\ world.kind = "weeks"
     /\ ~faulted
     /\ ClicksToTarget >= 1
     /\ ClicksToTarget <= MaxPages) => pret = "True"

\* The search cannot proceed in its direction: the page identity is in the
\* visited set (line 177) or no usable control was found (line 208).
CannotProceed ==
    \/ ppc = "loop" /\ WithinPageLimit(pages_checked) /\ url \in visited_pages
    \/ ppc = "nobutton"

\* C28: when the search cannot proceed it takes the opposite direction with
\* an empty visited set if that direction was not tried yet in the call, and
\* it stops only when both directions were tried.
C28_SwitchesUntilBothTried ==
    [][CannotProceed =>
         /\ Opposite(direction) \notin tried =>
              /\ direction' = Opposite(direction)
              /\ visited_pages' = {}
              /\ ppc' = "loop"
         /\ ppc' = "exit" => tried = Directions]_vars

\* _click_navigation_button made a click() call and reported the target as
\* not found.
ClickedWithoutFinding == ppc = "click" /\ clicks' > clicks /\ ppc' = "loop"

\* The dates put target t on the side opposite to direction d.
OppositeSide(t, dates, d) ==
    /\ dates # {}
    /\ \/ d = "forward" /\ \A x \in dates : t < x
       \/ d = "backward" /\ \A x \in dates : t > x

\* The visited set is emptied when the direction changes and kept otherwise.
VisitedFollowsDirection ==
    /\ direction' # direction => visited_pages' = {}
    /\ direction' = direction => visited_pages' = visited_pages

\* C29 as stated: after a click that does not reveal the target the
\* direction is reversed exactly when the dates the new page shows put the
\* target on the opposite side, and the visited set is emptied when the
\* direction changes and kept when it does not.
C29_ReversedByDatesShown ==
    [][ClickedWithoutFinding =>
         /\ direction' # direction <=> OppositeSide(target, pageDates', direction)
         /\ VisitedFollowsDirection]_vars

\* C29 as amended: the direction is reversed exactly when the click or a
\* wait after it raised, or the dates read from the new page put the target
\* on the opposite side; the visited set is emptied when the direction
\* changes and kept when it does not.
C29_ReversedByDatesReadOrFailure ==
    [][ClickedWithoutFinding =>
         /\ direction' # direction <=>
              \/ clickResult'.kind = "raised"
              \/ /\ clickResult'.kind = "read"
                 /\ OppositeSide(target, DateSet(clickResult'.new_dates), direction)
         /\ direction' # direction => direction' = Opposite(direction)
         /\ VisitedFollowsDirection]_vars

\* C29's case: a forward click showed a page whose dates, as read, are all
\* later than the target; the search goes backward with an empty visited set.
C29_Witness ==
    /\ ppc = "loop"
    /\ clickResult.kind = "read"
    /\ clickResult.new_dates # <<>>
    /\ target < clickResult.new_dates[1]
    /\ direction = "backward"
    /\ clicks > 0
    /\ visited_pages = {}

\* C30: a call that has ended returned True when its latest
\* find_date_on_page call returned True and no click() call was made after
\* it, and returned False in every other case.
C30_TrueOnlyAfterFind ==
    PagReturned =>
        IF lastFind = "True" /\ ~clickedSince
        THEN pret = "True"
        ELSE pret = "False"

(***************************************************************************)
(* Claims about WebtopAuth.login and _verify_login_success.                *)
(***************************************************************************)
LoginReturned == lpc = "done"

Position(event) ==
    IF \E i \in DOMAIN ltrace : ltrace[i] = event
    THEN CHOOSE i \in DOMAIN ltrace :
            ltrace[i] = event /\ \A j \in 1..(i - 1) : ltrace[j] # event
    ELSE 0

Happened(event) == Position(event) > 0

\* C5: login never raises: whichever step raised (the diagnostic capture
\* included), login returns False to its caller, and a call that has not
\* returned always has a next step.
C5_LoginNeverRaises ==
    /\ lret # "raised"
    /\ (LoginReturned /\ raisedStep # "none" => lret = "False")
    /\ (lpc = "except" => raisedStep \in RaisingSteps)
    /\ (~LoginReturned => ENABLED LoginNext)

\* C5's case: the redirect poll timed out, the diagnostic capture made at
\* the timeout raised, and login returned False.
C5_Witness ==
    /\ LoginReturned
    /\ raisedStep = "debug_timeout"
    /\ debugCalls = 2
    /\ lret = "False"

\* C6 as stated: when the username or the password field is not found, the
\* error is raised out of login to its caller, not turned into False.
C6_FieldNotFoundRaisedOut ==
    LoginReturned /\ raisedStep \in FieldLookups => lret = "raised"

\* C6 as amended: when the username or the password field is not found, the
\* error reaches login's handler; login attempts the diagnostic capture and
\* returns False, and the login control was never clicked.
C6_FieldNotFoundReturnsFalse ==
    raisedStep \in FieldLookups =>
        /\ lpc \in {"except", "done"}
        /\ (LoginReturned => lret = "False" /\ debugCalls >= 1)
        /\ ~Happened("login_click")
        /\ ~Happened("verify")

\* C6's case: the username was filled, the password field was not found, and
\* login has returned False.
C6_Witness ==
    /\ LoginReturned
    /\ raisedStep = "find_password"
    /\ Happened("fill_username")
    /\ lret = "False"

FullFlow ==
    <<"consent", "moe_click", "idp_wait", "tab_select", "fill_username",
      "click_password", "fill_password", "login_click", "verify">>

\* C7: a run of login that returns True carried out, in this order and each
\* once: consent handling, federated-login click, identity-provider wait,
\* tab selection, username fill, password click, password fill, login
\* click, redirect verification.  In every run a credential is typed only
\* after the federated-login click, and the login control is clicked only
\* after both credentials were filled.
C7_StepOrder ==
    /\ (lret = "True" => ltrace = FullFlow)
    /\ \A cred \in {"fill_username", "fill_password"} :
          Happened(cred) =>
             Happened("moe_click") /\ Position("moe_click") < Position(cred)
    /\ Happened("login_click") =>
          \A cred \in {"fill_username", "fill_password"} :
             Happened(cred) /\ Position(cred) < Position("login_click")

\* C7's case: a run of login that returned True.
C7_Witness == LoginReturned /\ lret = "True" /\ Happened("login_click")

\* C8: _verify_login_success returns True only if the final URL is on the
\* target site's domain and is not a login-indicator URL.
C8_TrueOnlyOnTargetDomain == vret = "True" => Redirected(lurl)

\* C9: if the redirect poll timed out and no URL read by verification ever
\* met the success condition, verification returns False and login reports
\* failure.
C9_TimeoutReturnsFalse ==
    timedOut /\ ~successObserved /\ vret # "none" =>
        /\ vret = "False"
        /\ (LoginReturned => lret = "False")

\* C10 as stated: after a visible CAPTCHA was waited for and no redirect
\* came, verification does not go on polling and cannot return True.
C10_UnresolvedCaptchaFails ==
    captchaUnresolved => ~polledAfterCaptcha /\ vret # "True"

\* C10 as amended: after a visible CAPTCHA was waited for and no redirect
\* came, verification has left the CAPTCHA wait, does not check for a
\* CAPTCHA again in this call, and returns True only through its final
\* verification of the URL or of a dashboard element.
C10_UnresolvedCaptchaPollsOn ==
    captchaUnresolved =>
        /\ lpc # "captcha"
        /\ recaptcha_checked
        /\ captchaChecks = 1
        /\ (vret = "True" => finalBy \in {"url", "dashboard"})

\* C10's case: the CAPTCHA wait ended without a redirect, the poll went on,
\* and verification returned True.
C10_Witness ==
    /\ captchaUnresolved
    /\ polledAfterCaptcha
    /\ vret = "True"
    /\ lret = "True"

(***************************************************************************)
(* Claims about _combine_content and parse_date.                           *)
(***************************************************************************)
Applied == result.kind # "pending"

SeparatorText == <<" ", "|", " ">>

\* What combine gives once it is settled which inputs are meaningful.
CombineOf(lesson_topic, homework, lesson_meaningful, homework_meaningful) ==
    IF lesson_meaningful /\ homework_meaningful
    THEN lesson_topic \o SeparatorText \o homework
    ELSE IF lesson_meaningful THEN lesson_topic
    ELSE IF homework_meaningful THEN homework
    ELSE <<>>

MeaningfulEitherSide(text) ==
    text # <<>> /\ text # EMPTY_LESSON_PLACEHOLDER /\ text # NO_HOMEWORK_PLACEHOLDER

\* C13 as stated: a value is not meaningful when it is empty or is the
\* "empty lesson" or the "no homework" marker, on either side; combine gives
\* "" for no meaningful input, the meaningful one verbatim for one, and
\* lessonTopic + " | " + homework for two.
C13_CombineEitherSide ==
    Applied /\ arg.kind = "combine" =>
        result.chars = CombineOf(arg.lesson_topic, arg.homework,
                                 MeaningfulEitherSide(arg.lesson_topic),
                                 MeaningfulEitherSide(arg.homework))

\* C13 as amended: the lesson topic is not meaningful when it is empty or
\* the "empty lesson" marker, the homework when it is empty, "--" or the
\* "no homework" marker; each marker counts only on its own side.  Combine
\* gives "" for no meaningful input, the meaningful one verbatim for one,
\* and lessonTopic + " | " + homework for two.
C13_CombinePerSide ==
    Applied /\ arg.kind = "combine" =>
        result.chars =
            CombineOf(arg.lesson_topic, arg.homework,
                      arg.lesson_topic # <<>>
                        /\ arg.lesson_topic # EMPTY_LESSON_PLACEHOLDER,
                      arg.homework # <<>>
                        /\ arg.homework # <<"-", "-">>
                        /\ arg.homework # NO_HOMEWORK_PLACEHOLDER)

\* C13's case: the lesson topic is the "no homework" marker and the homework
\* is real text; the marker is kept.
C13_Witness ==
    /\ Applied
    /\ arg.kind = "combine"
    /\ arg.lesson_topic = NO_HOMEWORK_PLACEHOLDER
    /\ arg.homework = <<"a">>
    /\ result.chars = NO_HOMEWORK_PLACEHOLDER \o SeparatorText \o <<"a">>

\* C17: each of the five renderings of a calendar date, with or without
\* whitespace around it, parses to that date, and no input is accepted by
\* two formats with different results.
C17_FormatInvariance ==
    Applied /\ arg.kind = "str" /\ ~arg.str.isNone =>
        /\ (arg.rendered.kind = "date" => result = arg.rendered)
        /\ \A i, j \in DOMAIN date_formats :
              LET first == strptime(Strip(arg.str.chars), date_formats[i])
                  second == strptime(Strip(arg.str.chars), date_formats[j])
              IN  first.kind = "date" /\ second.kind = "date" => first = second

\* C17's case: 29 February 2024 written year first, with whitespace on both
\* sides, parsed to that date.
C17_Witness ==
    /\ Applied
    /\ arg.kind = "str"
    /\ arg.str.chars = <<" ", "2", "0", "2", "4", "/", "0", "2", "/", "2", "9", " ">>
    /\ arg.rendered = Date(2024, 2, 29)
    /\ result = Date(2024, 2, 29)

NotDigit(c) == ~IsDigit(c)

CalendarOk(y, m, d) ==
    /\ y >= 1
    /\ m \in 1..12
    /\ d \in 1..31
    /\ (m \in {4, 6, 9, 11} => d <= 30)
    /\ (m = 2 => d <= 29)
    /\ (m = 2 /\ d = 29 => (y % 4 = 0 /\ y % 100 # 0) \/ y % 400 = 0)

\* The text is one of DD-MM-YYYY, DD/MM/YYYY, DD.MM.YYYY, YYYY-MM-DD and
\* YYYY/MM/DD (a leading zero of day or month may be left out) and names a
\* date of the calendar.
SupportedDateText(chars) ==
    LET text == Strip(chars)
        marks == SelectSeq(text, NotDigit)
    IN  /\ Len(marks) = 2
        /\ marks[1] = marks[2]
        /\ marks[1] \in {"-", "/", "."}
        /\ LET f == Split(text, marks[1])
           IN  \/ /\ Len(f[1]) \in {1, 2} /\ Len(f[2]) \in {1, 2} /\ Len(f[3]) = 4
                  /\ CalendarOk(IntOf(f[3]), IntOf(f[2]), IntOf(f[1]))
               \/ /\ marks[1] \in {"-", "/"}
                  /\ Len(f[1]) = 4 /\ Len(f[2]) \in {1, 2} /\ Len(f[3]) \in {1, 2}
                  /\ CalendarOk(IntOf(f[1]), IntOf(f[2]), IntOf(f[3]))

ExtractReturned == epc = "done"

Records(list) == {list[i] : i \in DOMAIN list}

\* C11: extract_homework always returns a list, and when an exception came
\* while the rows of the table were processed, the list returned holds the
\* records built from the rows before the failure.
C11_PartialListOnFailure ==
    /\ (ExtractReturned => eret.kind = "list")
    /\ (ExtractReturned /\ eraised = "row" => eret.list = inner_list)

\* C12: no record has an empty subject, and the records built are one for
\* each row read that has at least six cells and a non-empty subject,
\* whatever its lesson topic and homework text; a call that ends without an
\* exception returns them.
C12_SubjectDecidesRecord ==
    /\ \A rec \in Records(inner_list) : rec.subject # <<>>
    /\ Len(inner_list) = qualified
    /\ (ExtractReturned =>
            /\ \A rec \in Records(eret.list) : rec.subject # <<>>
            /\ (eraised = "no" /\ table # 0 => eret.list = inner_list))

\* C12's case: a call returned two records, one of them for a row whose
\* lesson topic and homework are both placeholders.
C12_Witness ==
    /\ ExtractReturned
    /\ eret.kind = "list"
    /\ Len(eret.list) = 2
    /\ \E rec \in Records(eret.list) :
          /\ rec.lesson_topic = EMPTY_LESSON_PLACEHOLDER
          /\ rec.homework = NO_HOMEWORK_PLACEHOLDER
          /\ rec.combined = <<>>

\* C14: every record was read from the table of the section of the target
\* date and carries the target date's DD/MM/YYYY string.
C14_RecordsOfTargetDate ==
    \A rec \in Records(inner_list) \cup
               (IF eret.kind = "list" THEN Records(eret.list) ELSE {}) :
        /\ sections[rec.section].date = etarget
        /\ rec.date = strftime(DayDate(etarget), Format("dmy", "/"))

\* C14's case: the page shows three dates, the target is the middle one,
\* its table has no aria-label, and a record was returned.
C14_Witness ==
    /\ ExtractReturned
    /\ eret.kind = "list"
    /\ eret.list # <<>>
    /\ Len(sections) = 3
    /\ sections[2].date = etarget
    /\ ~sections[2].labelled
    /\ sections[1].hasTable

(***************************************************************************)
(* Claims about WebtopScraper.get_today_homework.                          *)
(***************************************************************************)
ScraperReturned == spc = "done"

Ops == {calls[i].op : i \in DOMAIN calls}

CallsOf(op) == {i \in DOMAIN calls : calls[i].op = op}

Absent(s) == s.isNone

Empty(s) == ~s.isNone /\ s.chars = <<>>

\* C15: when the username or the password is missing or empty, the call
\* ends with the configuration error and has made no call at all: no
\* browser launch, no login, no navigation, no extraction.
C15_FailFastOnMissingCredentials ==
    (Absent(username) \/ Empty(username) \/ Absent(password) \/ Empty(password))
      /\ spc # "start" =>
        /\ ScraperReturned
        /\ sret = [kind |-> "raised", error |-> "credentials"]
        /\ calls = <<>>
        /\ ~browser

\* C15's case: the username is set, the password is empty, and the call has
\* ended with the configuration error.
C15_Witness ==
    /\ ScraperReturned
    /\ username = Str(<<"u">>)
    /\ Empty(password)
    /\ sret = [kind |-> "raised", error |-> "credentials"]
    /\ calls = <<>>

\* C16: with credentials set, a date argument that is given and is not a
\* supported date text ends the call with the date-parse error before the
\* browser is launched, and the current date is used only when the
\* argument is absent.
C16_GivenDateNeverDefaults ==
    /\ (~Absent(date) /\ ~SupportedDateText(date.chars)
          /\ Truthy(username) /\ Truthy(password) /\ spc # "start" =>
            /\ ScraperReturned
            /\ sret = [kind |-> "raised", error |-> "date"]
            /\ calls = <<>>)
    /\ (target_date.kind = "now" => Absent(date))

Stages == <<"login", "navigate_to_homework", "extract_homework">>

\* C19: login, navigate_to_homework and extract_homework are called at most
\* once each and in that order, each stage only after the one before it
\* returned True; after a False nothing further is called and the call
\* raises; a call that returns returns the list extract_homework returned.
C19_LinearStages ==
    /\ \A k \in DOMAIN Stages : Cardinality(CallsOf(Stages[k])) <= 1
    /\ \A k \in 2..Len(Stages) :
          \A i \in CallsOf(Stages[k]) :
             \E j \in CallsOf(Stages[k - 1]) : j < i /\ calls[j].outcome = TRUE
    /\ \A i \in CallsOf("login") \cup CallsOf("navigate_to_homework") :
          calls[i].outcome = FALSE =>
             /\ \A j \in DOMAIN calls : j > i => calls[j].op \notin Records(Stages)
             /\ (ScraperReturned => sret.kind = "raised")
    /\ (ScraperReturned /\ sret.kind = "list" =>
            \E i \in CallsOf("extract_homework") : sret.list = calls[i].outcome)

\* C19's case: all three stages ran and the call returned two items.
C19_Witness ==
    /\ ScraperReturned
    /\ sret.kind = "list"
    /\ Len(sret.list) = 2
    /\ CallsOf("login") # {}
    /\ CallsOf("navigate_to_homework") # {}

\* C20: when the call has ended and the browser had been launched,
\* browser.close() was called, and context.close() was called if the
\* context had been created.
C20_AlwaysClosed ==
    ScraperReturned /\ browser =>
        /\ "browser.close" \in Ops
        /\ (context => "context.close" \in Ops)

(***************************************************************************)
(* Claims about the block page check of WebtopAuth.login.                  *)
(***************************************************************************)
\* The title matches the block pattern of line 48.
BlockPage(page_title) == BlockedFirst(page_title)

\* C25: a blocked first title makes login reload the page once and no more;
\* when the title read after the reload still matches the block pattern,
\* login clicks no federated-login control, enters no credential and
\* returns False.
C25_StillBlockedGivesUp ==
    /\ reloads <= 1
    /\ (Len(titlesRead) = 2 => BlockPage(titlesRead[1]) /\ reloads = 1)
    /\ (Len(titlesRead) = 2 /\ BlockPage(titlesRead[2])) =>
          /\ ~Happened("moe_click")
          /\ ~Happened("fill_username")
          /\ ~Happened("fill_password")
          /\ LoginReturned => lret = "False"

(***************************************************************************)
(* Claims about the ways extract_homework gives up.                        *)
(***************************************************************************)
\* No heading of the page contains the target's display string.
NoHeadingOfTarget ==
    \A i \in DOMAIN sections :
        ~IsSubstring(DisplayOfDay(etarget), HeadingText(sections[i]))

\* The heading was found and no method of _find_date_table gave a table.
NoTableMatched == heading # 0 /\ table = 0 /\ eraised = "no"

\* No row of any table was asked for.
NoRowRead ==
    /\ nrows = 0
    /\ row_idx = 0
    /\ inner_list = <<>>
    /\ eraised \notin {"rows", "row"}

\* C21: a call in which the date was neither on the page nor reached by
\* pagination, or no heading contains the date, or no table was matched,
\* returns the empty list and has asked for no table row.
C21_GivesUpEmpty ==
    (/\ ExtractReturned
     /\ \/ located = "unreachable"
        \/ NoHeadingOfTarget
        \/ NoTableMatched) => eret = [kind |-> "list", list |-> <<>>] /\ NoRowRead

\* C21's case: the page holds the heading and the table of the date, and
\* the call gave up because the date was reported as not reached.
C21_Witness ==
    /\ ExtractReturned
    /\ located = "unreachable"
    /\ TableByParentCard(sections, DisplayOfDay(etarget)) # 0
    /\ eret = [kind |-> "list", list |-> <<>>]

(***************************************************************************)
(* Claims about the tab selection and the controls of the login form.      *)
(***************************************************************************)
\* The click() calls on tabs that returned.
TabsClicked == {i \in DOMAIN tabCalls : tabCalls[i].returned}

\* A signal that the username/password tab is already selected was seen: a
\* method of the check ran and the page has its signal.
SignalSeen == \E k \in 1..3 : reads[k] /\ Signal(k, mpage)

\* C22: when the username field is seen visible, or the username/password
\* tab is seen marked selected, or the password field is seen with a label
\* that is not the mobile one, no tab is clicked; otherwise at most one tab
\* is clicked (a click() call is only made after the one before it raised),
\* and no click() call is ever made on a tab whose text has the text of the
\* mobile tab.
C22_TabSelection ==
    /\ tpc # "check" /\ SignalSeen => tabCalls = <<>>
    /\ Cardinality(TabsClicked) <= 1
    /\ \A i \in DOMAIN tabCalls :
         /\ ~IsSubstring(MOBILE_TAB, mpage.tabs[tabCalls[i].tab].text)
         /\ i < Len(tabCalls) => ~tabCalls[i].returned
    /\ tpc = "done" /\ tret = "True" <=> TabsClicked # {}

\* The tab is already selected by the second signal only, next to a mobile
\* tab, and nothing was clicked.
C22_Witness ==
    /\ tpc = "done"
    /\ already = 2
    /\ \E i \in DOMAIN mpage.tabs : IsSubstring(MOBILE_TAB, mpage.tabs[i].text)
    /\ TabByText(mpage) # 0
    /\ tabCalls = <<>>

\* What the claims call enabled: no disabled attribute, and aria-disabled
\* not "true".
ObservedEnabled(read) == read.disabled = "None" /\ read.aria_disabled # "true"

\* C23 as stated: a control is clicked only after an iteration of the wait
\* loop observed it enabled, so a control that was disabled in every
\* iteration is not clicked; the loop makes at most BUTTON_ENABLE_MAX_WAIT
\* iterations.
C23_ClickedOnlyWhenEnabled ==
    /\ polls <= BUTTON_ENABLE_MAX_WAIT
    /\ bcalls > 0 => ObservedEnabled(lastRead)

\* C23, amended: a control is clicked only after an iteration of the wait
\* loop observed it enabled, or after BUTTON_ENABLE_MAX_WAIT iterations that
\* all observed it disabled; the loop makes at most BUTTON_ENABLE_MAX_WAIT
\* iterations, click() is called at most once, and it is not called when
\* locating the control or reading an attribute raised.
C23_ClickedWhenEnabledOrBudgetSpent ==
    /\ polls <= BUTTON_ENABLE_MAX_WAIT
    /\ bcalls <= 1
    /\ bcalls > 0 =>
         /\ element.kind # "none"
         /\ \/ ObservedEnabled(lastRead)
            \/ polls = BUTTON_ENABLE_MAX_WAIT /\ ~ObservedEnabled(lastRead)
    /\ bpc \in {"click", "done"} /\ polls < BUTTON_ENABLE_MAX_WAIT /\ bcalls > 0 =>
         ObservedEnabled(lastRead)

\* The Ministry of Education control was disabled in every iteration and was
\* clicked.
C23_Witness ==
    /\ control = "moe"
    /\ bpc = "done"
    /\ bret = "None"
    /\ polls = BUTTON_ENABLE_MAX_WAIT
    /\ ~ObservedEnabled(lastRead)
    /\ bcalls = 1

\* C24: the element _click_login_button clicks does not have the role of a
\* tab and has no ancestor with the role of a tablist, whichever method of
\* _find_login_button returned it.
C24_LoginControlIsNoTab ==
    control = "login" /\ bcalls > 0 =>
        /\ element.button.role # "tab"
        /\ ~element.button.in_tablist

(***************************************************************************)
(* Claims about find_date_on_page and get_dates_on_page.                   *)
(***************************************************************************)
\* Some heading of the page has the target display string in its text.
SomeHeadingHasTarget ==
    \E i \in DOMAIN arg.headings :
        /\ ~arg.headings[i].isNone
        /\ IsSubstring(arg.target_date_str, arg.headings[i].chars)

\* The first heading with the target in its text (0: none).
FirstHeadingWithTarget ==
    FirstIndex({i \in DOMAIN arg.headings :
        /\ ~arg.headings[i].isNone
        /\ IsSubstring(arg.target_date_str, arg.headings[i].chars)})

\* A driver call find_date_on_page made raised, and it was one whose
\* exception ends the function: a call before the loop, or text_content of a
\* heading the loop came to.
EndingCallFailed ==
    \/ arg.faults.outer
    \/ /\ arg.faults.text # 0
       /\ FirstHeadingWithTarget = 0 \/ arg.faults.text <= FirstHeadingWithTarget

\* A driver call find_date_on_page made raised and the function went on: the
\* wait for the headings, or the scroll of a heading.
IgnoredCallFailed ==
    /\ ~arg.faults.outer
    /\ \/ arg.faults.wait
       \/ arg.faults.scroll /\ arg.headings # <<>>

\* C38 as stated: find_date_on_page returns True only if some heading has the
\* target display string, returns True when one has it and no driver call
\* fails, returns False without raising when none has it or any driver call
\* fails, and makes no click.
C38_FalseOnAnyFailure ==
    Applied /\ arg.kind = "find_date" =>
        /\ ~result.raised
        /\ result.value => SomeHeadingHasTarget
        /\ SomeHeadingHasTarget /\ ~EndingCallFailed /\ ~IgnoredCallFailed
             => result.value
        /\ ~SomeHeadingHasTarget \/ EndingCallFailed \/ IgnoredCallFailed
             => ~result.value
        /\ "click" \notin result.calls

\* C38, amended: find_date_on_page returns True exactly when some heading has
\* the target display string and no driver call fails other than the wait
\* for the headings and the scrolls, whose failures are ignored; otherwise it
\* returns False; it never raises and makes no click.
C38_FalseOnEndingFailure ==
    Applied /\ arg.kind = "find_date" =>
        /\ ~result.raised
        /\ result.value <=> SomeHeadingHasTarget /\ ~EndingCallFailed
        /\ "click" \notin result.calls

\* The second heading has the target, the wait for the headings and the
\* scrolls failed, and True was returned.
C38_Witness ==
    /\ Applied
    /\ arg.kind = "find_date"
    /\ FirstHeadingWithTarget = 2
    /\ arg.faults.wait
    /\ arg.faults.scroll
    /\ result.value

\* The calendar date the DD/MM/YYYY pattern at offset i of s names, None
\* when there is no such pattern there or it names no calendar date.
DateNamedAt(s, i) ==
    IF ~MatchesAt(s, i) THEN None
    ELSE LET d == IntOf(SubSeq(s, i, i + 1))
             m == IntOf(SubSeq(s, i + 3, i + 4))
             y == IntOf(SubSeq(s, i + 6, i + 9))
         IN  IF y >= 1 /\ m >= 1 /\ m <= 12 /\ d >= 1 /\ d <= DaysInMonth(y, m)
             THEN Date(y, m, d) ELSE None

\* The headings get_dates_on_page read: those before the first failure.
HeadingsItRead ==
    IF arg.faults.outer THEN {}
    ELSE {i \in DOMAIN arg.headings : arg.faults.text = 0 \/ i < arg.faults.text}

\* The headings read whose text has a DD/MM/YYYY pattern naming a calendar
\* date.
WithValidPattern ==
    {i \in HeadingsItRead :
        /\ ~arg.headings[i].isNone
        /\ \E k \in DOMAIN arg.headings[i].chars :
             DateNamedAt(arg.headings[i].chars, k) # None}

\* The headings read whose first DD/MM/YYYY pattern names a calendar date.
WithValidFirstPattern ==
    {i \in HeadingsItRead :
        /\ ~arg.headings[i].isNone
        /\ \E k \in DOMAIN arg.headings[i].chars :
             /\ DateNamedAt(arg.headings[i].chars, k) # None
             /\ \A j \in 1..(k - 1) : ~MatchesAt(arg.headings[i].chars, j)}

FirstDateOf(i) ==
    LET s == arg.headings[i].chars
    IN  DateNamedAt(s, CHOOSE k \in DOMAIN s : MatchesAt(s, k) /\
                            \A j \in 1..(k - 1) : ~MatchesAt(s, j))

Ascending(dates) ==
    \A i \in DOMAIN dates : \A j \in DOMAIN dates :
        i < j => DateKey(dates[i]) <= DateKey(dates[j])

Occurrences(dt, dates) == Cardinality({i \in DOMAIN dates : dates[i] = dt})

\* C39 as stated: the list returned is ascending and has one date for every
\* heading read whose text has a DD/MM/YYYY pattern naming a calendar date,
\* each a date such a heading names, and nothing else.
C39_OneDatePerValidHeading ==
    Applied /\ arg.kind = "get_dates" =>
        /\ ~result.raised
        /\ Ascending(result.dates)
        /\ Len(result.dates) = Cardinality(WithValidPattern)
        /\ \A n \in DOMAIN result.dates :
             \E i \in WithValidPattern : \E k \in DOMAIN arg.headings[i].chars :
                 DateNamedAt(arg.headings[i].chars, k) = result.dates[n]

\* C39, amended: the list returned is ascending and holds exactly the dates
\* named by the first DD/MM/YYYY pattern of every heading read, for the
\* headings where that pattern names a calendar date, once per heading.
C39_OneDatePerValidFirstPattern ==
    Applied /\ arg.kind = "get_dates" =>
        /\ ~result.raised
        /\ Ascending(result.dates)
        /\ Len(result.dates) = Cardinality(WithValidFirstPattern)
        /\ \A i \in WithValidFirstPattern :
             Occurrences(FirstDateOf(i), result.dates) =
                 Cardinality({j \in WithValidFirstPattern :
                                 FirstDateOf(j) = FirstDateOf(i)})

\* Two headings were read, the first with a pattern that names no calendar
\* date before one that does, the second with a date; one date is returned.
C39_Witness ==
    /\ Applied
    /\ arg.kind = "get_dates"
    /\ HeadingsItRead = {1, 2}
    /\ 1 \in WithValidPattern \ WithValidFirstPattern
    /\ 2 \in WithValidFirstPattern
    /\ Len(result.dates) = 1

(***************************************************************************)
(* Claims about _find_navigation_button.                                   *)
(***************************************************************************)
\* A control passes the checks of the claim: visible, no disabled attribute,
\* aria-disabled not "true", no `empty` class.
PassesAllChecks(el) ==
    /\ el.count > 0
    /\ el.visible
    /\ el.disabled = "None"
    /\ el.aria_disabled # "true"
    /\ \A k \in DOMAIN el.class : el.class[k] # "empty"

\* C31: _find_navigation_button returns a control only if it is visible, has
\* no disabled attribute, no aria-disabled="true" and no `empty` class; when
\* no driver call fails it returns the first match, in the order of the
\* selectors, that passes these checks, and None when no match does.
C31_ReturnsFirstUsableControl ==
    Applied /\ arg.kind = "find_button" =>
        /\ result.selector # 0 => PassesAllChecks(arg.matches[result.selector])
        /\ arg.faults.at = 0 =>
             result.selector =
                 FirstIndex({i \in DOMAIN arg.matches : PassesAllChecks(arg.matches[i])})

(***************************************************************************)
(* Claims about the CAPTCHA check of _verify_login_success.                *)
(***************************************************************************)
\* C32: during one verification _handle_recaptcha is called at most once,
\* only in an iteration of the poll whose URL is on the Ministry of
\* Education domain and whose elapsed time is past RECAPTCHA_CHECK_DELAY;
\* the CAPTCHA wait runs only for an iframe found visible, and after a
\* hidden iframe the iteration goes on as it does without one: no wait, no
\* value returned, the timeout test and the sleep of lines 400-406.
C32_CaptchaCheckedOnceWhenVisible ==
    /\ [](/\ captchaChecks <= 1
          /\ captchaChecks = 0 <=> captchaSeen = "unchecked"
          /\ lpc = "captcha" \/ captchaUnresolved => captchaSeen = "visible"
          /\ captchaSeen = "hidden" => captchaI = 0)
    /\ [][captchaChecks' # captchaChecks =>
            /\ lpc = "poll"
            /\ captchaChecks = 0
            /\ lurl'.moe
            /\ now > RECAPTCHA_CHECK_DELAY
            /\ captchaSeen' = "hidden" =>
                 /\ lpc' # "captcha"
                 /\ PollTail(now, 0)
                 /\ UNCHANGED <<captchaI, vret, captchaUnresolved>>]_vars

\* A hidden iframe was found, and the verification went on to succeed.
C32_Witness ==
    /\ captchaSeen = "hidden"
    /\ captchaChecks = 1
    /\ successObserved
    /\ vret = "True"
    /\ lret = "True"

(***************************************************************************)
(* Claims about the diagnostic capture of WebtopAuth.login.                *)
(***************************************************************************)
\* C33: whenever login has returned False, _debug_login_failure was called
\* at least once before; login never raises; and a capture whose title
\* read, text read or screenshot fails is followed by what follows one that
\* succeeds: False where login returns, the final verification after the
\* timeout of the redirect poll.
C33_CaptureAttemptedBeforeFalse ==
    /\ [](/\ LoginReturned /\ lret = "False" => debugCalls >= 1
          /\ lret # "raised"
          /\ captureFailed => debugCalls >= 1)
    /\ [][debugCalls' # debugCalls =>
            /\ lpc' = "done" => lret' = "False"
            /\ lpc' # "done" => lpc' \in {"final", "except"} /\ lret' = lret
            /\ lpc \in {"load", "unverified", "except"} /\ raisedStep' = raisedStep
                 => lpc' = "done"]_vars

\* Verification returned False, the capture was attempted once and failed,
\* and login returned False.
C33_Witness ==
    /\ LoginReturned
    /\ lret = "False"
    /\ vret = "False"
    /\ raisedStep = "none"
    /\ debugCalls = 1
    /\ captureFailed

(***************************************************************************)
(* Claims about _extract_cell_text.                                        *)
(***************************************************************************)
Whitespace == {" ", "\n"}

\* C37: the value _extract_cell_text returns has no whitespace at either
\* end and no two whitespace characters in a row, contains neither prefix,
\* is none of the placeholders, and is returned unchanged when it is the
\* text of a cell.
C37_CellTextNormalized ==
    Applied /\ arg.kind = "cell_text" =>
        LET v == result.chars
        IN  /\ v # <<>> => v[1] \notin Whitespace /\ v[Len(v)] \notin Whitespace
            /\ \A i \in 1..(Len(v) - 1) :
                 ~(v[i] \in Whitespace /\ v[i + 1] \in Whitespace)
            /\ ~IsSubstring(LESSON_TOPIC_PREFIX, v)
            /\ ~IsSubstring(HOMEWORK_PREFIX, v)
            /\ v \notin {<<"-", GRAVE>>, <<"-">>, <<GRAVE>>, <<"-", "-">>}
            /\ _extract_cell_text([text |-> Str(v), raises |-> FALSE]) = v


(***************************************************************************)
(* Claims about _extract_attached_files.                                   *)
(***************************************************************************)
\* The positions of the elements of a listing that read without an error and
\* whose defining attribute passes the test has.
Readable(elements, has(_)) ==
    {i \in DOMAIN elements : ~elements[i].raises /\ has(elements[i].attr)}

\* The k-th smallest member of a set of positions.
RECURSIVE NthOf(_, _)
NthOf(S, k) == IF k = 1 THEN SetMin(S) ELSE NthOf(S \ {SetMin(S)}, k - 1)

\* The result is one Link per position of links in L followed by one Image
\* per position of images in I, each group in document order.
FilesAre(files, c, L, I) ==
    /\ Len(files) = Cardinality(L) + Cardinality(I)
    /\ \A k \in 1..Cardinality(L) :
          /\ files[k].type = "link"
          /\ files[k].href = c.links[NthOf(L, k)].attr.chars
          /\ files[k].text = Strip(c.links[NthOf(L, k)].caption.chars)
    /\ \A k \in 1..Cardinality(I) :
          LET e == files[Cardinality(L) + k]
          IN  /\ e.type = "image"
              /\ e.src = c.images[NthOf(I, k)].attr.chars
              /\ e.alt = Strip(c.images[NthOf(I, k)].caption.chars)

FilesCall == Applied /\ arg.kind = "files"

\* C36 as stated: one Link for every anchor that has an href and one Image
\* for every image that has a src, links before images, each group in
\* document order, an element whose read raises being the only one dropped.
C36_OneEntryPerElementWithAttribute ==
    FilesCall =>
        FilesAre(result.files, arg.file_cell,
                 Readable(arg.file_cell.links, HasAttribute),
                 Readable(arg.file_cell.images, HasAttribute))

\* C36, amended: the elements that get an entry are those whose href or src
\* is a non-empty string and whose reads do not raise; the images are
\* reached only if listing the anchors and listing the images both succeed,
\* and the anchors only if listing the anchors succeeds.
C36_OneEntryPerNonEmptyAttribute ==
    FilesCall =>
        LET c == arg.file_cell
            L == IF c.listing = "links" THEN {} ELSE Readable(c.links, Truthy)
            I == IF c.listing = "none" THEN Readable(c.images, Truthy) ELSE {}
        IN  FilesAre(result.files, c, L, I)

\* Two anchors and two images are listed, one anchor's read raises, one image
\* has an empty src, and the other two elements are returned, link first.
C36_Witness ==
    /\ FilesCall
    /\ arg.file_cell.listing = "none"
    /\ Len(arg.file_cell.links) = 2 /\ Len(arg.file_cell.images) = 2
    /\ arg.file_cell.links[1].raises
    /\ arg.file_cell.images[1].attr = Str(<<>>)
    /\ Len(result.files) = 2
    /\ result.files[1].type = "link" /\ result.files[2].type = "image"


(***************************************************************************)
(* Claims about _find_date_table.                                          *)
(***************************************************************************)
FindTableCall == Applied /\ arg.kind = "find_table"

\* Method k neither raises nor comes back empty-handed.
MethodMatches(k) ==
    arg.ok[k] /\ TableOfMethod(k, arg.page, DisplayOfDay(arg.day)) # 0

\* C35: the methods are tried in the order 1 (aria-label selector), 2 (scan
\* of the tables by aria-label), 3 (table of the card of the heading), 4
\* (scan of the div tables by aria-label); the call returns what the first
\* matching method found, a method is tried only if every earlier one
\* failed, a method that raises does not keep the next from being tried, and
\* the call returns no table only if all four fail.
C35_FirstMatchingMethodWins ==
    FindTableCall =>
        LET run == result.run
            matching == {k \in 1..4 : MethodMatches(k)}
            last == IF matching = {} THEN 4 ELSE SetMin(matching)
        IN  /\ run.tried = [k \in 1..last |-> k]
            /\ \A i \in DOMAIN run.tried :
                  \A j \in 1..4 : j < run.tried[i] => ~MethodMatches(j)
            /\ run.by = (IF matching = {} THEN 0 ELSE last)
            /\ run.by # 0 =>
                  run.table = TableOfMethod(run.by, arg.page, DisplayOfDay(arg.day))
            /\ (run.table = 0) = (matching = {})
            /\ run.table = _find_date_table(arg.page, DisplayOfDay(arg.day), arg.ok)

\* Methods 1 and 2 raise, the table has no aria-label, and method 3 returns
\* the table of the card of the heading.
C35_Witness ==
    /\ FindTableCall
    /\ ~arg.ok[1] /\ ~arg.ok[2] /\ arg.ok[3]
    /\ TableByAriaLabel(arg.page, DisplayOfDay(arg.day)) = 0
    /\ result.run.by = 3
    /\ result.run.table # 0
    /\ result.run.tried = <<1, 2, 3>>


(***************************************************************************)
(* Claims about _extract_table_data.                                       *)
(***************************************************************************)
TableDataReturned == Applied /\ arg.kind = "table_data" /\ result.kind = "records"

\* The rows that are kept: six cells or more and a subject.
KeptRows ==
    {i \in DOMAIN arg.rows :
        Len(arg.rows[i]) >= 6 /\ _extract_subject(arg.rows[i][2]) # <<>>}

\* C34: the records are in row order, one per kept row; the fields of a
\* record are read from the cells of its own row by position (hour, subject,
\* teacher, status, lesson topic, homework, and the attachments of the
\* seventh cell or an empty list); combined is the combination of the
\* record's own lesson_topic and homework.
C34_RecordsFollowRowsByPosition ==
    TableDataReturned =>
        /\ Len(result.list) = Cardinality(KeptRows)
        /\ \A k \in 1..Cardinality(KeptRows) :
              LET cells == arg.rows[NthOf(KeptRows, k)]
                  rec == result.list[k]
              IN  /\ rec.hour = _extract_cell_text(cells[1])
                  /\ rec.subject = _extract_subject(cells[2])
                  /\ rec.teacher = _extract_cell_text(cells[3])
                  /\ rec.status = _extract_cell_text(cells[4])
                  /\ rec.lesson_topic = _extract_cell_text(cells[5])
                  /\ rec.homework = _extract_cell_text(cells[6])
                  /\ rec.attached_files =
                        (IF Len(cells) >= 7 THEN _extract_attached_files(cells[7])
                         ELSE <<>>)
                  /\ rec.combined = _combine_content(rec.lesson_topic, rec.homework)

\* A table of two kept rows that differ: the first record has attachments
\* and the second, from a row of six cells, has none.
C34_Witness ==
    /\ TableDataReturned
    /\ KeptRows = {1, 2}
    /\ Len(result.list) = 2
    /\ result.list[1].hour # result.list[2].hour
    /\ result.list[1].attached_files # <<>>
    /\ Len(arg.rows[2]) = 6
    /\ result.list[2].attached_files = <<>>
====
